---- MODULE Spec2Model ----
(***************************************************************************)
(* A model of the marksmith streaming Markdown parser: the LineSplitter,   *)
(* the MarkdownParser block parser with its open-block tree, the link      *)
(* reference definition sweep and the part of the inline parser that       *)
(* resolves emphasis and links.                                            *)
(*                                                                         *)
(* Strings are sequences of one-character strings, indexed from 0 through  *)
(* CharAt and Slice exactly as the TypeScript source indexes them.         *)
(***************************************************************************)
EXTENDS Integers, Sequences, FiniteSets, TLC

\* ------------------------------------------------------------------------
\* JavaScript string primitives
\* ------------------------------------------------------------------------

Null == [type |-> "null"]

Undefined == <<"undefined">>

\* the grave accent character U+0060, which a TLA+ string cannot hold
Backtick == "BACKTICK"

Min(a, b) == IF a < b THEN a ELSE b

Max(a, b) == IF a > b THEN a ELSE b

\* const name = value, then body: Bind([name \in {value} |-> body]) is the
\* value of body with name bound to value, and value is computed once
Bind(f) == f[CHOOSE name \in DOMAIN f : TRUE]

\* String.prototype.charAt: the empty string outside the string
CharAt(s, i) == IF i >= 0 /\ i < Len(s) THEN s[i + 1] ELSE ""

\* String.prototype.slice(a, b) for non-negative a and b
Slice(s, a, b) == SubSeq(s, Max(a, 0) + 1, Min(b, Len(s)))

SliceFrom(s, a) == Slice(s, a, Len(s))

\* the white space String.prototype.trim removes (restricted to ASCII)
IsTrimSpace(c) == c \in {" ", "\t", "\n", "\r", "\f"}

RECURSIVE TrimStart(_)
TrimStart(s) ==
  IF Len(s) > 0 /\ IsTrimSpace(s[1]) THEN TrimStart(Tail(s)) ELSE s

RECURSIVE TrimEnd(_)
TrimEnd(s) ==
  IF Len(s) > 0 /\ IsTrimSpace(s[Len(s)])
  THEN TrimEnd(SubSeq(s, 1, Len(s) - 1))
  ELSE s

Trim(s) == TrimEnd(TrimStart(s))

\* " ".repeat(n)
Spaces(n) == [i \in 1..Max(n, 0) |-> " "]

\* the elements of an array
Range(seq) == {seq[i] : i \in 1..Len(seq)}

RECURSIVE Flatten(_)
Flatten(ss) == IF Len(ss) = 0 THEN <<>> ELSE Head(ss) \o Flatten(Tail(ss))

\* Array.prototype.join("\n")
RECURSIVE JoinLines(_)
JoinLines(ls) ==
  IF Len(ls) = 0 THEN <<>>
  ELSE IF Len(ls) = 1 THEN ls[1]
  ELSE ls[1] \o <<"\n">> \o JoinLines(Tail(ls))

\* ------------------------------------------------------------------------
\* LineSplitter
\* ------------------------------------------------------------------------

\* new LineSplitter()
InitSplitter == [partialLine |-> <<>>, hasPendingCR |-> FALSE]

\* the for loop of split: i is the scan index, st the running
\* [partialLine, hasPendingCR, lineStartIndex, lines]
RECURSIVE SplitLoop(_, _, _)
SplitLoop(chunk, i, st) ==
  IF i >= Len(chunk) THEN st
  ELSE
    LET currentChar == CharAt(chunk, i)
        emit == [st EXCEPT !.lines = Append(@, st.partialLine \o Slice(chunk, st.lineStartIndex, i)),
                           !.partialLine = <<>>]
    IN IF currentChar = "\n"
       THEN SplitLoop(chunk, i + 1, [emit EXCEPT !.lineStartIndex = i + 1])
       ELSE IF currentChar = "\r"
       THEN IF i + 1 < Len(chunk) /\ CharAt(chunk, i + 1) = "\n"
            THEN SplitLoop(chunk, i + 2, [emit EXCEPT !.lineStartIndex = i + 2])
            ELSE IF i = Len(chunk) - 1
            THEN SplitLoop(chunk, i + 1, [emit EXCEPT !.lineStartIndex = i + 1, !.hasPendingCR = TRUE])
            ELSE SplitLoop(chunk, i + 1, [emit EXCEPT !.lineStartIndex = i + 1])
       ELSE SplitLoop(chunk, i + 1, st)

\* split with the pending CR forgotten: a line feed that opens the chunk after
\* a chunk ending in CR ends one more line
SplitForgettingPendingCR(sp, chunk, stream) ==
  LET st0 == [partialLine |-> sp.partialLine, hasPendingCR |-> FALSE,
              lineStartIndex |-> 0, lines |-> <<>>]
      st1 == SplitLoop(chunk, 0, st0)
      partial == st1.partialLine \o SliceFrom(chunk, st1.lineStartIndex)
  IN IF ~stream /\ Len(partial) > 0
     THEN [sp |-> [partialLine |-> <<>>, hasPendingCR |-> st1.hasPendingCR],
           lines |-> Append(st1.lines, partial)]
     ELSE [sp |-> [partialLine |-> partial, hasPendingCR |-> st1.hasPendingCR],
           lines |-> st1.lines]

\* split with a pending CR that an empty chunk leaves pending: the flag is
\* cleared only by a chunk that has a first character
SplitHoldingPendingCR(sp, chunk, stream) ==
  LET lineStartIndex == IF sp.hasPendingCR /\ CharAt(chunk, 0) = "\n" THEN 1 ELSE 0
      st0 == [partialLine |-> sp.partialLine, hasPendingCR |-> sp.hasPendingCR /\ Len(chunk) = 0,
              lineStartIndex |-> lineStartIndex, lines |-> <<>>]
      st1 == SplitLoop(chunk, lineStartIndex, st0)
      partial == st1.partialLine \o SliceFrom(chunk, st1.lineStartIndex)
  IN IF ~stream /\ Len(partial) > 0
     THEN [sp |-> [partialLine |-> <<>>, hasPendingCR |-> st1.hasPendingCR],
           lines |-> Append(st1.lines, partial)]
     ELSE [sp |-> [partialLine |-> partial, hasPendingCR |-> st1.hasPendingCR],
           lines |-> st1.lines]

\* split that emits the partial line at the end of every call, streamed or not
SplitEmittingPartial(sp, chunk, stream) ==
  LET lineStartIndex == IF sp.hasPendingCR /\ CharAt(chunk, 0) = "\n" THEN 1 ELSE 0
      st0 == [partialLine |-> sp.partialLine, hasPendingCR |-> FALSE,
              lineStartIndex |-> lineStartIndex, lines |-> <<>>]
      st1 == SplitLoop(chunk, lineStartIndex, st0)
      partial == st1.partialLine \o SliceFrom(chunk, st1.lineStartIndex)
  IN IF Len(partial) > 0
     THEN [sp |-> [partialLine |-> <<>>, hasPendingCR |-> st1.hasPendingCR],
           lines |-> Append(st1.lines, partial)]
     ELSE [sp |-> [partialLine |-> partial, hasPendingCR |-> st1.hasPendingCR],
           lines |-> st1.lines]

\* split that forgets the buffered partial line at the start of every call
SplitDroppingPartial(sp, chunk, stream) ==
  LET lineStartIndex == IF sp.hasPendingCR /\ CharAt(chunk, 0) = "\n" THEN 1 ELSE 0
      st0 == [partialLine |-> <<>>, hasPendingCR |-> FALSE,
              lineStartIndex |-> lineStartIndex, lines |-> <<>>]
      st1 == SplitLoop(chunk, lineStartIndex, st0)
      partial == st1.partialLine \o SliceFrom(chunk, st1.lineStartIndex)
  IN IF ~stream /\ Len(partial) > 0
     THEN [sp |-> [partialLine |-> <<>>, hasPendingCR |-> st1.hasPendingCR],
           lines |-> Append(st1.lines, partial)]
     ELSE [sp |-> [partialLine |-> partial, hasPendingCR |-> st1.hasPendingCR],
           lines |-> st1.lines]

\* LineSplitter.split(chunk, {stream}): the new splitter and the returned lines
Split(sp, chunk, stream) ==
  LET lineStartIndex == IF sp.hasPendingCR /\ CharAt(chunk, 0) = "\n" THEN 1 ELSE 0
      st0 == [partialLine |-> sp.partialLine, hasPendingCR |-> FALSE,
              lineStartIndex |-> lineStartIndex, lines |-> <<>>]
  IN  Bind([st1 \in {SplitLoop(chunk, lineStartIndex, st0)} |->
  LET partial == st1.partialLine \o SliceFrom(chunk, st1.lineStartIndex)
  IN IF ~stream /\ Len(partial) > 0
     THEN [sp |-> [partialLine |-> <<>>, hasPendingCR |-> st1.hasPendingCR],
           lines |-> Append(st1.lines, partial)]
     ELSE [sp |-> [partialLine |-> partial, hasPendingCR |-> st1.hasPendingCR],
           lines |-> st1.lines]])

\* ------------------------------------------------------------------------
\* Line classifiers of the block parser
\* ------------------------------------------------------------------------

isSpaceOrTab(char) == char = " " \/ char = "\t"

isLineEmpty(line) == Len(Trim(line)) = 0

RECURSIVE getFirstNonspaceIndex(_)
getFirstNonspaceIndex(line) ==
  IF Len(line) > 0 /\ isSpaceOrTab(line[1])
  THEN 1 + getFirstNonspaceIndex(Tail(line))
  ELSE 0

\* the loop of getLeadingNonspaceColumn and of sliceLeadingIndent: the
\* [columns, index] reached at the first character that is no space or tab
RECURSIVE IndentScan(_, _, _)
IndentScan(line, i, columns) ==
  IF i < Len(line) /\ CharAt(line, i) = " " THEN IndentScan(line, i + 1, columns + 1)
  ELSE IF i < Len(line) /\ CharAt(line, i) = "\t" THEN IndentScan(line, i + 1, columns + (4 - (columns % 4)))
  ELSE [columns |-> columns, index |-> i]

getLeadingNonspaceColumn(line) == IndentScan(line, 0, 0).columns

sliceLeadingIndent(line, width) ==
  LET sc == IndentScan(line, 0, 0)
  IN IF sc.columns > width
     THEN Spaces(sc.columns - width) \o SliceFrom(line, sc.index)
     ELSE SliceFrom(line, sc.index)

isIndentedCodeLine(line) == getLeadingNonspaceColumn(line) >= 4

\* the number of consecutive characters equal to marker from index i on
RECURSIVE CountRun(_, _, _)
CountRun(line, i, marker) ==
  IF i < Len(line) /\ CharAt(line, i) = marker THEN 1 + CountRun(line, i + 1, marker) ELSE 0

\* the white space after a container marker: [columns, index] at the content
RECURSIVE MarkerScan(_, _, _)
MarkerScan(line, characterIndex, numOfColumns) ==
  IF characterIndex < Len(line) /\ CharAt(line, characterIndex) = "\t"
  THEN MarkerScan(line, characterIndex + 1, numOfColumns + (4 - (numOfColumns % 4)))
  ELSE IF characterIndex < Len(line) /\ CharAt(line, characterIndex) = " "
  THEN MarkerScan(line, characterIndex + 1, numOfColumns + 1)
  ELSE [columns |-> numOfColumns, index |-> characterIndex]

parseBlockquoteLine(line) ==
  IF isIndentedCodeLine(line) THEN Null
  ELSE
    LET firstNonspaceIndex == getFirstNonspaceIndex(line)
    IN IF CharAt(line, firstNonspaceIndex) # ">" THEN Null
       ELSE
         LET sc == MarkerScan(line, firstNonspaceIndex + 1, firstNonspaceIndex + 1)
         IN  Bind([content \in {Spaces(sc.columns - firstNonspaceIndex - 1) \o SliceFrom(line, sc.index)} |->
            IF CharAt(content, 0) = " "
            THEN [type |-> "blockquote", content |-> SliceFrom(content, 1)]
            ELSE [type |-> "blockquote", content |-> content]])

\* the number of trailing # of the trimmed line that lie after the opening run
RECURSIVE ClosingHashes(_, _, _)
ClosingHashes(line, numOfOpeningHashes, n) ==
  IF Len(line) - n - 1 <= numOfOpeningHashes THEN n
  ELSE IF CharAt(line, Len(line) - n - 1) # "#" THEN n
  ELSE ClosingHashes(line, numOfOpeningHashes, n + 1)

parseATXHeading(rawLine) ==
  IF isIndentedCodeLine(rawLine) THEN Null
  ELSE
    LET line == Trim(rawLine)
    IN IF CharAt(line, 0) # "#" THEN Null
       ELSE
         LET numOfOpeningHashes == CountRun(line, 0, "#")
         IN IF numOfOpeningHashes > 6 THEN Null
            ELSE IF numOfOpeningHashes < Len(line)
                    /\ CharAt(line, numOfOpeningHashes) # " "
                    /\ CharAt(line, numOfOpeningHashes) # "\t"
            THEN Null
            ELSE
              LET numOfClosingHashes == ClosingHashes(line, numOfOpeningHashes, 0)
                  contentEndIndex ==
                    IF isSpaceOrTab(CharAt(line, Len(line) - numOfClosingHashes - 1))
                    THEN Len(line) - numOfClosingHashes
                    ELSE Len(line)
              IN [type |-> "heading", level |-> numOfOpeningHashes,
                  content |-> Trim(Slice(line, numOfOpeningHashes, contentEndIndex))]

parseCodeFenceStart(rawLine) ==
  LET indentColumns == getLeadingNonspaceColumn(rawLine)
      line == Trim(rawLine)
      marker == CharAt(line, 0)
  IN IF indentColumns > 3 THEN Null
     ELSE IF Len(line) < 3 THEN Null
     ELSE IF marker # "~" /\ marker # Backtick THEN Null
     ELSE
       LET numOfMarkers == CountRun(line, 0, marker)
           info == Trim(SliceFrom(line, numOfMarkers))
       IN IF numOfMarkers < 3 THEN Null
          ELSE IF marker = Backtick /\ (\E i \in 1..Len(info) : info[i] = Backtick) THEN Null
          ELSE [type |-> "fence", indentLevel |-> indentColumns, numOfMarkers |-> numOfMarkers,
                marker |-> marker, info |-> IF info = <<>> THEN Undefined ELSE info]

\* a closing fence of any length: the opener's number of markers is not looked at
isCodeFenceEndOfAnyLength(rawLine, marker, openerNumOfMarkers) ==
  LET indent == getLeadingNonspaceColumn(rawLine)
      line == Trim(rawLine)
      numOfMarkers == Max(1, CountRun(line, 0, marker))
  IN /\ indent <= 3
     /\ CharAt(line, 0) = marker
     /\ Len(line) <= numOfMarkers

isCodeFenceEnd(rawLine, marker, openerNumOfMarkers) ==
  LET indent == getLeadingNonspaceColumn(rawLine)
      line == Trim(rawLine)
      numOfMarkers == Max(1, CountRun(line, 0, marker))
  IN /\ indent <= 3
     /\ CharAt(line, 0) = marker
     /\ numOfMarkers >= openerNumOfMarkers
     /\ Len(line) <= numOfMarkers

parseSetextHeading(rawLine) ==
  IF isIndentedCodeLine(rawLine) THEN Null
  ELSE
    LET line == Trim(rawLine)
        marker == CharAt(line, 0)
    IN IF marker # "=" /\ marker # "-" THEN Null
       ELSE IF \E i \in 1..Len(line) : line[i] # marker THEN Null
       ELSE IF marker = "=" THEN [type |-> "setext", level |-> 1]
       ELSE [type |-> "setext", level |-> 2]

isSeparator(rawLine) ==
  IF isIndentedCodeLine(rawLine) THEN FALSE
  ELSE
    LET line == Trim(rawLine)
        marker == CharAt(line, 0)
    IN IF marker # "-" /\ marker # "_" /\ marker # "*" THEN FALSE
       ELSE IF \E i \in 2..Len(line) : ~isSpaceOrTab(line[i]) /\ line[i] # marker THEN FALSE
       ELSE Cardinality({i \in 1..Len(line) : line[i] = marker}) >= 3

Digits == {"0", "1", "2", "3", "4", "5", "6", "7", "8", "9"}

DigitValue(c) ==
  CASE c = "0" -> 0 [] c = "1" -> 1 [] c = "2" -> 2 [] c = "3" -> 3 [] c = "4" -> 4
    [] c = "5" -> 5 [] c = "6" -> 6 [] c = "7" -> 7 [] c = "8" -> 8 [] c = "9" -> 9

\* parseInt(digits, 10)
RECURSIVE ParseInt(_)
ParseInt(ds) ==
  IF Len(ds) = 0 THEN 0
  ELSE 10 * ParseInt(SubSeq(ds, 1, Len(ds) - 1)) + DigitValue(ds[Len(ds)])

\* the number of consecutive digits from index i on
RECURSIVE CountDigits(_, _)
CountDigits(line, i) ==
  IF i < Len(line) /\ CharAt(line, i) \in Digits THEN 1 + CountDigits(line, i + 1) ELSE 0

parseOrderedListItem(line) ==
  IF isIndentedCodeLine(line) THEN Null
  ELSE
    LET firstNonspaceIndex == getFirstNonspaceIndex(line)
        first == CharAt(line, firstNonspaceIndex)
    IN IF first # "" /\ first \notin Digits THEN Null
       ELSE
         LET numOfDigits == Max(1, CountDigits(line, firstNonspaceIndex))
             delimiter == CharAt(line, firstNonspaceIndex + numOfDigits)
             characterIndex == firstNonspaceIndex + numOfDigits + 1
         IN IF numOfDigits > 9 THEN Null
            ELSE IF delimiter # "." /\ delimiter # ")" THEN Null
            ELSE IF characterIndex < Len(line)
                    /\ CharAt(line, characterIndex) # " "
                    /\ CharAt(line, characterIndex) # "\t"
            THEN Null
            ELSE
              LET sc == MarkerScan(line, characterIndex, characterIndex)
              IN [type |-> "item", kind |-> "ordered",
                  content |-> SliceFrom(line, sc.index),
                  numOfColumns |-> sc.columns,
                  numOfColumnsAfterMarker |-> sc.columns - (firstNonspaceIndex + numOfDigits + 1),
                  value |-> ParseInt(Slice(line, firstNonspaceIndex, firstNonspaceIndex + numOfDigits)),
                  delimiter |-> delimiter, marker |-> ""]

parseUnorderedListItem(line) ==
  IF isIndentedCodeLine(line) THEN Null
  ELSE
    LET firstNonspaceIndex == getFirstNonspaceIndex(line)
        marker == CharAt(line, firstNonspaceIndex)
        characterIndex == firstNonspaceIndex + 1
    IN IF marker # "*" /\ marker # "+" /\ marker # "-" THEN Null
       ELSE IF characterIndex < Len(line)
               /\ CharAt(line, characterIndex) # " "
               /\ CharAt(line, characterIndex) # "\t"
       THEN Null
       ELSE
         LET sc == MarkerScan(line, characterIndex, characterIndex)
         IN [type |-> "item", kind |-> "unordered",
             content |-> SliceFrom(line, sc.index),
             numOfColumns |-> sc.columns,
             numOfColumnsAfterMarker |-> sc.columns - (firstNonspaceIndex + 1),
             value |-> 0, delimiter |-> "", marker |-> marker]

parseListItem(line) ==
  LET orderedListItem == parseOrderedListItem(line)
  IN  Bind([item \in {IF orderedListItem # Null THEN orderedListItem ELSE parseUnorderedListItem(line)} |->
     IF item = Null THEN Null
     ELSE IF item.numOfColumnsAfterMarker >= 5
             \/ item.numOfColumnsAfterMarker <= 0
             \/ isLineEmpty(item.content)
     THEN LET padded == Spaces(item.numOfColumnsAfterMarker) \o item.content
          IN [item EXCEPT !.content = IF CharAt(padded, 0) = " " THEN SliceFrom(padded, 1) ELSE padded,
                          !.numOfColumns = item.numOfColumns - item.numOfColumnsAfterMarker + 1]
     ELSE item])

\* String.prototype.split on the separator positions seps (0-based, ascending)
RECURSIVE SplitAt(_, _, _)
SplitAt(line, from, seps) ==
  IF Len(seps) = 0 THEN <<SliceFrom(line, from)>>
  ELSE <<Slice(line, from, Head(seps))>> \o SplitAt(line, Head(seps) + 1, Tail(seps))

\* the ascending sequence of the members of a set of numbers
RECURSIVE SortedSeq(_)
SortedSeq(S) ==
  IF S = {} THEN <<>>
  ELSE LET m == CHOOSE x \in S : \A y \in S : x <= y IN <<m>> \o SortedSeq(S \ {m})

\* cell.replace(/\\\|/g, "|")
RECURSIVE UnescapePipes(_)
UnescapePipes(cell) ==
  IF Len(cell) = 0 THEN <<>>
  ELSE IF Len(cell) >= 2 /\ cell[1] = "\\" /\ cell[2] = "|"
  THEN <<"|">> \o UnescapePipes(SubSeq(cell, 3, Len(cell)))
  ELSE <<cell[1]>> \o UnescapePipes(Tail(cell))

parseTableRow(rawLine) ==
  LET line == Trim(rawLine)
      seps == SortedSeq({i \in 0..(Len(line) - 1) : CharAt(line, i) = "|" /\ CharAt(line, i - 1) # "\\"})
      raw == SplitAt(line, 0, seps)
  IN  Bind([cells \in {[i \in 1..Len(raw) |-> Trim(UnescapePipes(raw[i]))]} |->
  LET shifted == IF Len(cells) > 0 /\ cells[1] = <<>> THEN Tail(cells) ELSE cells
  IN IF Len(shifted) > 0 /\ shifted[Len(shifted)] = <<>>
     THEN SubSeq(shifted, 1, Len(shifted) - 1)
     ELSE shifted])

\* /^:?-+:?$/.test(cell)
IsDelimiterCell(cell) ==
  LET a == IF CharAt(cell, 0) = ":" THEN 1 ELSE 0
      b == IF Len(cell) > a /\ CharAt(cell, Len(cell) - 1) = ":" THEN Len(cell) - 1 ELSE Len(cell)
  IN b > a /\ \A i \in a..(b - 1) : CharAt(cell, i) = "-"

\* the loop over the delimiter cells: an empty cell only at either end,
\* every other cell a delimiter cell
DelimiterCellsValid(delimiterCells) ==
  \A i \in 1..Len(delimiterCells) :
    LET cell == Trim(delimiterCells[i])
    IN IF cell = <<>> THEN i = 1 \/ i = Len(delimiterCells) ELSE IsDelimiterCell(cell)

\* the alignment pushed for each non-empty delimiter cell from index i on
RECURSIVE DelimiterAlignments(_, _)
DelimiterAlignments(delimiterCells, i) ==
  IF i > Len(delimiterCells) THEN <<>>
  ELSE
    LET cell == Trim(delimiterCells[i])
        rest == DelimiterAlignments(delimiterCells, i + 1)
    IN IF cell = <<>> THEN rest
       ELSE IF CharAt(cell, Len(cell) - 1) = ":"
       THEN IF CharAt(cell, 0) = ":" THEN <<"center">> \o rest ELSE <<"right">> \o rest
       ELSE IF CharAt(cell, 0) = ":" THEN <<"left">> \o rest
       ELSE <<"undefined">> \o rest

\* a header row that goes with every delimiter row
HeaderNotEmpty(headerCells, alignments) == Len(headerCells) # 0

\* the negation of headerCells.length === 0 || headerCells.length !== alignments.length
HeaderMatchesDelimiter(headerCells, alignments) ==
  Len(headerCells) # 0 /\ Len(headerCells) = Len(alignments)

parseTableStartLine(rawFirstLine, rawSecondLine) ==
  IF isIndentedCodeLine(rawSecondLine) THEN Null
  ELSE IF isLineEmpty(rawSecondLine) THEN Null
  ELSE
    LET firstLine == Trim(rawFirstLine)
        secondLine == Trim(rawSecondLine)
    IN IF CharAt(secondLine, 0) \notin {"|", ":", "-"} THEN Null
       ELSE IF CharAt(secondLine, 0) = "-" /\ isSpaceOrTab(CharAt(secondLine, 1)) THEN Null
       ELSE IF \A i \in 1..Len(firstLine) : firstLine[i] # "|" THEN Null
       ELSE IF \E i \in 2..Len(secondLine) : secondLine[i] \notin {"|", ":", "-", " ", "\t"} THEN Null
       ELSE
         LET delimiterCells == SplitAt(secondLine, 0,
                                 SortedSeq({i \in 0..(Len(secondLine) - 1) : CharAt(secondLine, i) = "|"}))
             alignments == DelimiterAlignments(delimiterCells, 1)
             headerCells == parseTableRow(firstLine)
         IN IF ~DelimiterCellsValid(delimiterCells) THEN Null
            ELSE IF ~HeaderMatchesDelimiter(headerCells, alignments) THEN Null
            ELSE [type |-> "table", cells |-> headerCells, alignments |-> alignments]

\* ------------------------------------------------------------------------
\* Link reference definitions
\* ------------------------------------------------------------------------

LowerLetters == <<"a", "b", "c", "d", "e", "f", "g", "h", "i", "j", "k", "l", "m",
                  "n", "o", "p", "q", "r", "s", "t", "u", "v", "w", "x", "y", "z">>

UpperLetters == <<"A", "B", "C", "D", "E", "F", "G", "H", "I", "J", "K", "L", "M",
                  "N", "O", "P", "Q", "R", "S", "T", "U", "V", "W", "X", "Y", "Z">>

\* c.toLowerCase().toUpperCase() of one ASCII character
FoldCase(c) ==
  IF \E i \in 1..26 : LowerLetters[i] = c
  THEN UpperLetters[CHOOSE i \in 1..26 : LowerLetters[i] = c]
  ELSE c

\* replace(/\s+/g, " ")
RECURSIVE CollapseWhitespace(_)
CollapseWhitespace(s) ==
  IF Len(s) = 0 THEN <<>>
  ELSE IF IsTrimSpace(s[1])
  THEN <<" ">> \o CollapseWhitespace(TrimStart(s))
  ELSE <<s[1]>> \o CollapseWhitespace(Tail(s))

normalizeReference(reference) ==
  Bind([collapsed \in {CollapseWhitespace(Trim(reference))} |->
     [i \in 1..Len(collapsed) |-> FoldCase(collapsed[i])]])

AsciiPunctuation ==
  {"!", "\"", "#", "$", "%", "&", "'", "(", ")", "*", "+", ",", "-", ".", "/",
   ":", ";", "<", "=", ">", "?", "@", "[", "\\", "]", "^", "_", Backtick, "{", "|", "}", "~"}

isAsciiPunctuationCharacter(character) == character \in AsciiPunctuation

\* unescapeString on text without "&": a backslash before ASCII punctuation
\* is dropped
RECURSIVE unescapeString(_)
unescapeString(text) ==
  IF Len(text) = 0 THEN <<>>
  ELSE IF Len(text) >= 2 /\ text[1] = "\\" /\ text[2] \in AsciiPunctuation
  THEN <<text[2]>> \o unescapeString(SubSeq(text, 3, Len(text)))
  ELSE <<text[1]>> \o unescapeString(Tail(text))

\* ASCII control characters that a line or a joined paragraph can hold
IsControlCharacter(c) == c \in {"\t", "\n", "\r", "\f"}

\* the loop of the <...> branch of parseLinkDestination:
\* the index of the closing ">", or -1
RECURSIVE AngleDestinationEnd(_, _)
AngleDestinationEnd(input, destinationEndIndex) ==
  IF destinationEndIndex >= Len(input) THEN -1
  ELSE
    LET character == CharAt(input, destinationEndIndex)
    IN IF character = "\n" THEN -1
       ELSE IF character = "<" THEN -1
       ELSE IF character = ">" THEN destinationEndIndex
       ELSE IF character = "\\" /\ destinationEndIndex + 1 < Len(input)
       THEN AngleDestinationEnd(input, destinationEndIndex + 2)
       ELSE AngleDestinationEnd(input, destinationEndIndex + 1)

\* the loop of the bare branch of parseLinkDestination: the index at which
\* the destination stops and the number of unbalanced "(", or -1 when more
\* than 32 are open
RECURSIVE BareDestinationEnd(_, _, _)
BareDestinationEnd(input, destinationEndIndex, numOfLeftParentheses) ==
  IF destinationEndIndex >= Len(input)
  THEN [index |-> destinationEndIndex, open |-> numOfLeftParentheses]
  ELSE
    LET character == CharAt(input, destinationEndIndex)
        here == [index |-> destinationEndIndex, open |-> numOfLeftParentheses]
    IN IF character = " " THEN here
       ELSE IF IsControlCharacter(character) THEN here
       ELSE IF character = "\\" /\ destinationEndIndex + 1 < Len(input)
       THEN IF CharAt(input, destinationEndIndex + 1) = " " THEN here
            ELSE BareDestinationEnd(input, destinationEndIndex + 2, numOfLeftParentheses)
       ELSE IF character = "("
       THEN IF numOfLeftParentheses + 1 > 32 THEN [index |-> -1, open |-> 0]
            ELSE BareDestinationEnd(input, destinationEndIndex + 1, numOfLeftParentheses + 1)
       ELSE IF character = ")"
       THEN IF numOfLeftParentheses = 0 THEN here
            ELSE BareDestinationEnd(input, destinationEndIndex + 1, numOfLeftParentheses - 1)
       ELSE BareDestinationEnd(input, destinationEndIndex + 1, numOfLeftParentheses)

parseLinkDestination(input, startIndex) ==
  IF startIndex >= Len(input) THEN Null
  ELSE IF CharAt(input, startIndex) = "<"
  THEN LET destinationEndIndex == AngleDestinationEnd(input, startIndex + 1)
       IN IF destinationEndIndex < 0 THEN Null
          ELSE [type |-> "destination",
                href |-> unescapeString(Slice(input, startIndex + 1, destinationEndIndex)),
                endIndex |-> destinationEndIndex]
  ELSE LET end == BareDestinationEnd(input, startIndex, 0)
       IN IF end.index < 0 THEN Null
          ELSE IF end.open # 0 THEN Null
          ELSE [type |-> "destination",
                href |-> unescapeString(Slice(input, startIndex, end.index)),
                endIndex |-> end.index - 1]

\* the outcome of a call that never returns
Diverges == [type |-> "diverges"]

\* lines[i] for a 0-based i, Undefined outside the array
LineAt(lines, i) == IF i >= 0 /\ i < Len(lines) THEN lines[i + 1] ELSE Undefined

\* the label loop of parseLinkReferenceDefinition; st is the running
\* [content, characterCursor, nextLineIndex, label]; exit is "break" at the
\* closing bracket, "end" at the end of content, "null" on return null
RECURSIVE DefinitionLabelLoop(_, _)
DefinitionLabelLoop(lines, st) ==
  IF st.characterCursor >= Len(st.content) THEN [st EXCEPT !.exit = "end"]
  ELSE
    LET character == CharAt(st.content, st.characterCursor)
        nextCharacter == CharAt(st.content, st.characterCursor + 1)
        nextLine == LineAt(lines, st.nextLineIndex)
    IN IF character = "\\"
       THEN IF nextCharacter \in {"]", "[", "\\"}
            THEN DefinitionLabelLoop(lines, [st EXCEPT !.label = Append(@, nextCharacter),
                                                       !.characterCursor = @ + 2])
            ELSE DefinitionLabelLoop(lines, [st EXCEPT !.label = Append(@, character),
                                                       !.characterCursor = @ + 1])
       ELSE IF character = "[" THEN [st EXCEPT !.exit = "null"]
       ELSE IF character = "]" THEN [st EXCEPT !.exit = "break"]
       ELSE IF character = "\n"
       THEN IF nextLine = Undefined THEN [st EXCEPT !.exit = "null"]
            ELSE DefinitionLabelLoop(lines, [st EXCEPT !.content = @ \o Trim(nextLine) \o <<"\n">>,
                                                       !.label = Append(@, "\n"),
                                                       !.characterCursor = @ + 1,
                                                       !.nextLineIndex = @ + 1])
       ELSE DefinitionLabelLoop(lines, [st EXCEPT !.label = Append(@, character),
                                                  !.characterCursor = @ + 1])

\* the two loops that skip white space, after the colon (mustContinue: a
\* missing next line returns null) and after the destination (a missing
\* next line breaks)
RECURSIVE DefinitionSkipWhitespace(_, _, _)
DefinitionSkipWhitespace(lines, st, mustContinue) ==
  LET character == CharAt(st.content, st.characterCursor)
      nextLine == LineAt(lines, st.nextLineIndex)
  IN IF character = " " \/ character = "\t"
     THEN DefinitionSkipWhitespace(lines, [st EXCEPT !.characterCursor = @ + 1], mustContinue)
     ELSE IF character = "\n"
     THEN IF nextLine = Undefined
          THEN [st EXCEPT !.exit = IF mustContinue THEN "null" ELSE "break"]
          ELSE DefinitionSkipWhitespace(lines, [st EXCEPT !.content = @ \o Trim(nextLine) \o <<"\n">>,
                                                          !.characterCursor = @ + 1,
                                                          !.nextLineIndex = @ + 1], mustContinue)
     ELSE [st EXCEPT !.exit = "break"]

\* the title loop of parseLinkReferenceDefinition, entered after the opening
\* quote; exit is "title" at the closing quote, "break" otherwise, and
\* "diverges" once the cursor is past the end of content: charAt then
\* returns "" for ever, no branch but the final characterCursor++ is taken
\* and the while (true) loop has no other exit
RECURSIVE DefinitionTitleLoop(_, _, _, _)
DefinitionTitleLoop(lines, st, openingQuoteCharacter, closingQuoteCharacter) ==
  LET character == CharAt(st.content, st.characterCursor)
      nextLine == LineAt(lines, st.nextLineIndex)
  IN IF character = closingQuoteCharacter THEN [st EXCEPT !.exit = "title"]
     ELSE IF character = "(" /\ openingQuoteCharacter = "(" THEN [st EXCEPT !.exit = "break"]
     ELSE IF character = "\\" /\ st.characterCursor + 1 < Len(st.content)
     THEN DefinitionTitleLoop(lines, [st EXCEPT !.characterCursor = @ + 2],
                              openingQuoteCharacter, closingQuoteCharacter)
     ELSE IF character = "\n"
     THEN IF nextLine = Undefined THEN [st EXCEPT !.exit = "break"]
          ELSE DefinitionTitleLoop(lines, [st EXCEPT !.content = @ \o Trim(nextLine) \o <<"\n">>,
                                                     !.characterCursor = @ + 1,
                                                     !.nextLineIndex = @ + 1],
                                   openingQuoteCharacter, closingQuoteCharacter)
     ELSE IF st.characterCursor >= Len(st.content) THEN [st EXCEPT !.exit = "diverges"]
     ELSE DefinitionTitleLoop(lines, [st EXCEPT !.characterCursor = @ + 1],
                              openingQuoteCharacter, closingQuoteCharacter)

\* parseLinkReferenceDefinition from the destination on; st is the state
\* after the white space that follows the colon
DefinitionAfterColon(lines, st, label) ==
  Bind([destination \in {parseLinkDestination(st.content, st.characterCursor)} |->
     IF destination = Null THEN Null
     ELSE
       LET characterCursorAfterDestination == destination.endIndex + 1
           nextLineIndexAfterDestination == st.nextLineIndex
           destinationIsFollowedByNewline == CharAt(st.content, characterCursorAfterDestination) = "\n"
       IN IF ~destinationIsFollowedByNewline
             /\ CharAt(st.content, characterCursorAfterDestination) \notin {" ", "\t"}
          THEN Null
          ELSE
            Bind([s2 \in {DefinitionSkipWhitespace(lines,
                            [st EXCEPT !.characterCursor = characterCursorAfterDestination], FALSE)} |->
            LET openingQuoteCharacter == CharAt(s2.content, s2.characterCursor)
                hasQuote == openingQuoteCharacter \in {"\"", "'", "("}
                closingQuoteCharacter == IF openingQuoteCharacter = "(" THEN ")" ELSE openingQuoteCharacter
                titleStartIndex == s2.characterCursor + 1
            IN  Bind([s3 \in {IF hasQuote
                              THEN DefinitionTitleLoop(lines, [s2 EXCEPT !.characterCursor = titleStartIndex],
                                                       openingQuoteCharacter, closingQuoteCharacter)
                              ELSE s2} |->
            LET closed == hasQuote /\ s3.exit = "title"
                \* the cursor after the title loop: past the closing quote when found
                cursorAfterTitle == IF closed THEN s3.characterCursor + 1 ELSE s3.characterCursor
                titleValid == closed /\ CharAt(s3.content, cursorAfterTitle) = "\n"
             IN IF hasQuote /\ s3.exit = "diverges" THEN Diverges
                ELSE IF titleValid
                THEN [type |-> "definition", label |-> normalizeReference(label),
                      href |-> destination.href,
                      title |-> unescapeString(Slice(s3.content, titleStartIndex, s3.characterCursor)),
                      nextLineIndex |-> s3.nextLineIndex]
                ELSE IF ~destinationIsFollowedByNewline THEN Null
                ELSE [type |-> "definition", label |-> normalizeReference(label),
                      href |-> destination.href, title |-> Undefined,
                      nextLineIndex |-> nextLineIndexAfterDestination]])])])

\* parseLinkReferenceDefinition(lines): Null, a definition with the number
\* of lines it takes, or Diverges
parseLinkReferenceDefinition(lines) ==
  IF Len(lines) = 0 THEN Null
  ELSE
    LET content == Trim(lines[1]) \o <<"\n">>
    IN IF CharAt(content, 0) # "[" THEN Null
       ELSE
         Bind([s1 \in {DefinitionLabelLoop(lines, [content |-> content, characterCursor |-> 1,
                                                   nextLineIndex |-> 1, label |-> <<>>, exit |-> "run"])} |->
            IF s1.exit = "null" THEN Null
            ELSE IF Len(s1.label) = 0 \/ Len(s1.label) > 999 THEN Null
            ELSE IF Len(Trim(s1.label)) = 0 THEN Null
            ELSE IF CharAt(s1.content, s1.characterCursor + 1) # ":" THEN Null
            ELSE
              LET s2 == DefinitionSkipWhitespace(lines, [s1 EXCEPT !.characterCursor = @ + 2], TRUE)
              IN IF s2.exit = "null" THEN Null
                 ELSE DefinitionAfterColon(lines, s2, s1.label)])

\* ------------------------------------------------------------------------
\* The internal block tree
\*
\* The tree is an arena: nodes is a sequence of node records, a node is
\* named by its index, parent and children hold indices, and the root is
\* node 1.  A node taken out of its parent's children stays in the arena,
\* unreachable.
\* ------------------------------------------------------------------------

RootId == 1

NoNode == 0

\* a node with every field of every internal node type
BlankNode ==
  [type |-> "none", isClosed |-> FALSE, parent |-> NoNode, children |-> <<>>,
   startLineIndex |-> 0, endLineIndex |-> 0,
   lines |-> <<>>,
   level |-> 0, content |-> <<>>,
   indentLevel |-> 0, numOfMarkers |-> 0, marker |-> "", info |-> Undefined,
   kind |-> "", start |-> 0, delimiter |-> "", numOfColumns |-> 0, isTight |-> TRUE,
   alignments |-> <<>>, head |-> <<>>, rows |-> <<>>,
   endPattern |-> "undefined", canBeInterruptedByBlankLine |-> FALSE]

\* MarkdownParser.root after construction
InitNodes == <<[BlankNode EXCEPT !.type = "root"]>>

\* children.at(-1), NoNode for undefined
LastChild(nodes, id) ==
  IF Len(nodes[id].children) = 0 THEN NoNode
  ELSE nodes[id].children[Len(nodes[id].children)]

IsContainerType(type) == type \in {"blockquote", "list", "list-item"}

\* the open last child of node, whatever it holds, or NoNode
LastOpenChild(nodes, node) ==
  LET child == LastChild(nodes, node)
  IN IF child = NoNode THEN NoNode
     ELSE IF nodes[child].isClosed THEN NoNode
     ELSE child

RECURSIVE getDeepestOpenNodeOnRightmostPath(_, _)
getDeepestOpenNodeOnRightmostPath(nodes, node) ==
  LET child == LastChild(nodes, node)
  IN IF child = NoNode THEN NoNode
     ELSE IF nodes[child].isClosed THEN NoNode
     ELSE IF IsContainerType(nodes[child].type)
     THEN LET deepestOpenNode == getDeepestOpenNodeOnRightmostPath(nodes, child)
          IN IF deepestOpenNode # NoNode THEN deepestOpenNode ELSE child
     ELSE child

\* a list has a gap when some child ends more than one line before the next starts
HasGap(nodes, children) ==
  \E i \in 1..(Len(children) - 1) :
    nodes[children[i]].endLineIndex < nodes[children[i + 1]].startLineIndex - 1

isListTight(nodes, list) ==
  LET items == nodes[list].children
  IN /\ ~HasGap(nodes, items)
     /\ \A j \in 1..Len(items) : ~HasGap(nodes, nodes[items[j]].children)

\* the body of the first loop of closeRightmostPath for one node
CloseNode(nodes, currentNode) ==
  LET n0 == nodes[currentNode]
      n1 == [n0 EXCEPT !.isClosed = TRUE]
      closed == [nodes EXCEPT ![currentNode] = n1]
  IN  Bind([n2 \in {IF n1.type = "list" THEN [n1 EXCEPT !.isTight = isListTight(closed, currentNode)] ELSE n1} |->
  LET n3 == IF IsContainerType(n2.type) /\ Len(n2.children) > 0
            THEN [n2 EXCEPT !.startLineIndex = Min(@, nodes[n2.children[1]].startLineIndex),
                            !.endLineIndex = Max(@, nodes[n2.children[Len(n2.children)]].endLineIndex)]
            ELSE n2
  IN [nodes EXCEPT ![currentNode] = n3]])

\* the first loop of closeRightmostPath: from the deepest open node up to parent
RECURSIVE CloseUpwards(_, _, _)
CloseUpwards(nodes, currentNode, parent) ==
  IF currentNode = parent THEN nodes
  ELSE IF currentNode = NoNode THEN nodes
  ELSE Bind([closed \in {CloseNode(nodes, currentNode)} |->
          IF nodes[currentNode].parent # NoNode /\ nodes[nodes[currentNode].parent].type = "root"
          THEN closed
          ELSE CloseUpwards(closed, nodes[currentNode].parent, parent)])

\* the second loop of closeRightmostPath: down the chain of last children
RECURSIVE CloseDownwards(_, _)
CloseDownwards(nodes, child) ==
  IF child = NoNode THEN nodes
  ELSE IF nodes[child].isClosed THEN nodes
  ELSE LET closed == [nodes EXCEPT ![child].isClosed = TRUE]
       IN IF IsContainerType(nodes[child].type)
          THEN CloseDownwards(closed, LastChild(nodes, child))
          ELSE closed

closeRightmostPath(nodes, parent) ==
  Bind([up \in {CloseUpwards(nodes, getDeepestOpenNodeOnRightmostPath(nodes, parent), parent)} |->
     CloseDownwards(up, LastChild(up, parent))])

\* addNode without closeRightmostPath(node.parent): the new node becomes the
\* sibling of blocks that stay open
addNodeLeavingOpen(nodes, node) ==
  [Append(nodes, node) EXCEPT ![node.parent].children = Append(@, Len(nodes) + 1)]

\* addNode(node): the new node gets the next index of the arena
addNode(nodes, node) ==
  Bind([sealed \in {closeRightmostPath(nodes, node.parent)} |->
  LET id == Len(sealed) + 1
  IN [Append(sealed, node) EXCEPT ![node.parent].children = Append(@, id)]])

\* parent.children.pop()
PopChild(nodes, parent) ==
  [nodes EXCEPT ![parent].children = SubSeq(@, 1, Len(@) - 1)]

\* ------------------------------------------------------------------------
\* The reference store: a Map in insertion order
\* ------------------------------------------------------------------------

HasReference(referenceDefinitions, label) ==
  \E i \in 1..Len(referenceDefinitions) : referenceDefinitions[i].label = label

GetReference(referenceDefinitions, label) ==
  referenceDefinitions[CHOOSE i \in 1..Len(referenceDefinitions) : referenceDefinitions[i].label = label]

\* the store as a last-writer-wins map: set(label, {href, title}) without the
\* has(label) test
SetAlways(referenceDefinitions, definition) ==
  IF HasReference(referenceDefinitions, definition.label)
  THEN [i \in 1..Len(referenceDefinitions) |->
          IF referenceDefinitions[i].label = definition.label
          THEN [label |-> definition.label, href |-> definition.href, title |-> definition.title]
          ELSE referenceDefinitions[i]]
  ELSE Append(referenceDefinitions,
              [label |-> definition.label, href |-> definition.href, title |-> definition.title])

\* if (!referenceDefinitions.has(label)) referenceDefinitions.set(label, {href, title})
SetIfAbsent(referenceDefinitions, definition) ==
  IF HasReference(referenceDefinitions, definition.label) THEN referenceDefinitions
  ELSE Append(referenceDefinitions,
              [label |-> definition.label, href |-> definition.href, title |-> definition.title])

\* a loop that takes no definition out of the lines
TakeNoDefinitions(lines, referenceDefinitions) ==
  [lines |-> lines, referenceDefinitions |-> referenceDefinitions, diverged |-> FALSE]

\* the loop that takes the leading definitions out of a paragraph's lines,
\* written twice in the source (setext heading, end-of-call sweep): the
\* remaining lines, the store, and whether parseLinkReferenceDefinition
\* never returned
RECURSIVE TakeDefinitions(_, _)
TakeDefinitions(lines, referenceDefinitions) ==
  Bind([definition \in {parseLinkReferenceDefinition(lines)} |->
     IF definition = Diverges
     THEN [lines |-> lines, referenceDefinitions |-> referenceDefinitions, diverged |-> TRUE]
     ELSE IF definition = Null
     THEN [lines |-> lines, referenceDefinitions |-> referenceDefinitions, diverged |-> FALSE]
     ELSE TakeDefinitions(SliceFrom(lines, definition.nextLineIndex),
                          SetIfAbsent(referenceDefinitions, definition))])

\* ------------------------------------------------------------------------
\* Tags: the expressions OPEN_TAG and CLOSE_TAG that the block parser
\* imports from the inline parser
\* ------------------------------------------------------------------------

Letters == Range(LowerLetters) \cup Range(UpperLetters)

Alphanumerics == Letters \cup Digits

\* getNumOfConsecutiveCharacters(input, {characters, startIndex})
RECURSIVE getNumOfConsecutiveCharacters(_, _, _)
getNumOfConsecutiveCharacters(input, characters, startIndex) ==
  IF startIndex >= Len(input) THEN 0
  ELSE IF CharAt(input, startIndex) \notin characters THEN 0
  ELSE 1 + getNumOfConsecutiveCharacters(input, characters, startIndex + 1)

\* input.slice(characterCursor).match(HTML_TAG_REGEX) for an open tag
\* without attributes or a closing tag: the length of the match, 0 if there
\* is none. No text that reaches parseInline in this model has white space,
\* "!" or "?" between "<" and ">", which attributes, comments, processing
\* instructions, declarations and CDATA sections need.
HtmlTagMatch(input, characterCursor) ==
  LET nameIndex == IF CharAt(input, characterCursor + 1) = "/"
                   THEN characterCursor + 2 ELSE characterCursor + 1
      nameLength == getNumOfConsecutiveCharacters(input, Alphanumerics \cup {"-"}, nameIndex)
      spaceIndex == nameIndex + nameLength
      slashIndex ==
        spaceIndex + getNumOfConsecutiveCharacters(input, {" ", "\t", "\n", "\f", "\r"}, spaceIndex)
      endIndex == IF CharAt(input, slashIndex) = "/" /\ nameIndex = characterCursor + 1
                  THEN slashIndex + 1 ELSE slashIndex
  IN IF /\ CharAt(input, characterCursor) = "<"
        /\ CharAt(input, nameIndex) \in Letters
        /\ CharAt(input, endIndex) = ">"
     THEN endIndex + 1 - characterCursor
     ELSE 0

\* ------------------------------------------------------------------------
\* HTML blocks
\* ------------------------------------------------------------------------

\* the names of the first start pattern: script|pre|textarea|style
RawTextNames ==
  {<<"s", "c", "r", "i", "p", "t">>, <<"p", "r", "e">>, <<"t", "e", "x", "t", "a",
   "r", "e", "a">>, <<"s", "t", "y", "l", "e">>}

\* the names of the sixth start pattern
BlockTagNames ==
  {<<"a", "d", "d", "r", "e", "s", "s">>, <<"a", "r", "t", "i", "c", "l", "e">>,
   <<"a", "s", "i", "d", "e">>, <<"b", "a", "s", "e">>, <<"b", "a", "s", "e", "f",
   "o", "n", "t">>, <<"b", "l", "o", "c", "k", "q", "u", "o", "t", "e">>, <<"b", "o",
   "d", "y">>, <<"c", "a", "p", "t", "i", "o", "n">>, <<"c", "e", "n", "t", "e",
   "r">>, <<"c", "o", "l">>, <<"c", "o", "l", "g", "r", "o", "u", "p">>, <<"d", "d">>,
   <<"d", "e", "t", "a", "i", "l", "s">>, <<"d", "i", "a", "l", "o", "g">>, <<"d",
   "i", "r">>, <<"d", "i", "v">>, <<"d", "l">>, <<"d", "t">>, <<"f", "i", "e", "l",
   "d", "s", "e", "t">>, <<"f", "i", "g", "c", "a", "p", "t", "i", "o", "n">>, <<"f",
   "i", "g", "u", "r", "e">>, <<"f", "o", "o", "t", "e", "r">>, <<"f", "o", "r",
   "m">>, <<"f", "r", "a", "m", "e">>, <<"f", "r", "a", "m", "e", "s", "e", "t">>,
   <<"h", "1">>, <<"h", "2">>, <<"h", "3">>, <<"h", "4">>, <<"h", "5">>, <<"h", "6">>,
   <<"h", "e", "a", "d">>, <<"h", "e", "a", "d", "e", "r">>, <<"h", "r">>, <<"h", "t",
   "m", "l">>, <<"i", "f", "r", "a", "m", "e">>, <<"l", "e", "g", "e", "n", "d">>,
   <<"l", "i">>, <<"l", "i", "n", "k">>, <<"m", "a", "i", "n">>, <<"m", "e", "n",
   "u">>, <<"m", "e", "n", "u", "i", "t", "e", "m">>, <<"n", "a", "v">>, <<"n", "o",
   "f", "r", "a", "m", "e", "s">>, <<"o", "l">>, <<"o", "p", "t", "g", "r", "o", "u",
   "p">>, <<"o", "p", "t", "i", "o", "n">>, <<"p">>, <<"p", "a", "r", "a", "m">>,
   <<"s", "e", "c", "t", "i", "o", "n">>, <<"s", "e", "a", "r", "c", "h">>, <<"s",
   "u", "m", "m", "a", "r", "y">>, <<"t", "a", "b", "l", "e">>, <<"t", "b", "o", "d",
   "y">>, <<"t", "d">>, <<"t", "f", "o", "o", "t">>, <<"t", "h">>, <<"t", "h", "e",
   "a", "d">>, <<"t", "i", "t", "l", "e">>, <<"t", "r">>, <<"t", "r", "a", "c", "k">>,
   <<"u", "l">>}

\* the characters of \s that a line can hold
RegexWhitespace == {" ", "\t", "\f"}

\* s starts with prefix, letters compared without case (flag i)
StartsWithFolded(s, prefix) ==
  /\ Len(s) >= Len(prefix)
  /\ \A i \in 1..Len(prefix) : FoldCase(s[i]) = FoldCase(prefix[i])

\* s holds sub somewhere, letters compared without case (flag i)
ContainsFolded(s, sub) ==
  \E k \in 0..(Len(s) - Len(sub)) : StartsWithFolded(SliceFrom(s, k), sub)

\* s starts with prefix
StartsWith(s, prefix) == Len(s) >= Len(prefix) /\ SubSeq(s, 1, Len(prefix)) = prefix

\* s holds sub somewhere
Contains(s, sub) == \E k \in 0..(Len(s) - Len(sub)) : StartsWith(SliceFrom(s, k), sub)

\* /^<(?:script|pre|textarea|style)(?:\s|>|$)/i
RawTextStart(s) ==
  \E name \in RawTextNames :
    /\ StartsWithFolded(s, <<"<">> \o name)
    /\ \/ Len(s) = Len(name) + 1
       \/ CharAt(s, Len(name) + 1) \in RegexWhitespace \cup {">"}

\* the sixth start pattern: /^<[/]?(?:address|...|ul)(?:\s|[/]?[>]|$)/i
BlockTagStart(s) ==
  \E name \in BlockTagNames :
    \E open \in {<<"<">>, <<"<", "/">>} :
      LET after == Len(open) + Len(name)
      IN /\ StartsWithFolded(s, open \o name)
         /\ \/ Len(s) = after
            \/ CharAt(s, after) \in RegexWhitespace \cup {">"}
            \/ CharAt(s, after) = "/" /\ CharAt(s, after + 1) = ">"

\* the seventh start pattern: "^(?:" + OPEN_TAG + "|" + CLOSE_TAG + ")\\s*$"
\* for a tag without attributes
CompleteTagAlone(s) ==
  LET length == HtmlTagMatch(s, 0)
  IN /\ length > 0
     /\ \A i \in (length + 1)..Len(s) : s[i] \in RegexWhitespace

\* a sequence of HTML_SEQUENCES; endPattern names the expression
HtmlSequence(endPattern, canInterruptParagraph, canBeInterruptedByBlankLine) ==
  [endPattern |-> endPattern, canInterruptParagraph |-> canInterruptParagraph,
   canBeInterruptedByBlankLine |-> canBeInterruptedByBlankLine]

\* HTML_SEQUENCES.find(...): the first sequence whose start pattern matches
FindHtmlSequence(s) ==
  IF RawTextStart(s) THEN HtmlSequence("rawtext", TRUE, FALSE)
  ELSE IF StartsWith(s, <<"<", "!", "-", "-">>) THEN HtmlSequence("comment", TRUE, FALSE)
  ELSE IF StartsWith(s, <<"<", "?">>) THEN HtmlSequence("processing", TRUE, FALSE)
  ELSE IF StartsWith(s, <<"<", "!">>) /\ CharAt(s, 2) \in Letters
  THEN HtmlSequence("declaration", TRUE, FALSE)
  ELSE IF StartsWith(s, <<"<", "!", "[", "C", "D", "A", "T", "A", "[">>)
  THEN HtmlSequence("cdata", TRUE, FALSE)
  ELSE IF BlockTagStart(s) THEN HtmlSequence("undefined", TRUE, TRUE)
  ELSE IF CompleteTagAlone(s) THEN HtmlSequence("undefined", FALSE, TRUE)
  ELSE Null

parseHTMLBlockStart(line) ==
  IF isIndentedCodeLine(line) THEN Null
  ELSE IF CharAt(line, getFirstNonspaceIndex(line)) # "<" THEN Null
  ELSE FindHtmlSequence(SliceFrom(line, getFirstNonspaceIndex(line)))

\* an end pattern that matches every line
EndPatternMatchesAll(endPattern, line) == endPattern # "undefined"

\* node.endPattern?.test(line.trim()); line is the trimmed line
EndPatternTest(endPattern, line) ==
  CASE endPattern = "rawtext" ->
         \E name \in RawTextNames : ContainsFolded(line, <<"<", "/">> \o name \o <<">">>)
    [] endPattern = "comment" -> Contains(line, <<"-", "-", ">">>)
    [] endPattern = "processing" -> Contains(line, <<"?", ">">>)
    [] endPattern = "declaration" -> Contains(line, <<">">>)
    [] endPattern = "cdata" -> Contains(line, <<"]", "]", ">">>)
    [] OTHER -> FALSE

\* ------------------------------------------------------------------------
\* MarkdownParser.parseLine
\* ------------------------------------------------------------------------

\* The first loop of parseLine, the descent along the rightmost path.
\* returned: the line is fully processed (a return inside the loop)
RECURSIVE ContinueLine(_, _, _, _)
ContinueLine(nodes, lastMatchedNode, line, lineIndex) ==
  LET child == LastChild(nodes, lastMatchedNode)
      stop == [nodes |-> nodes, lastMatchedNode |-> lastMatchedNode, line |-> line, returned |-> FALSE]
      return(ns) == [nodes |-> ns, lastMatchedNode |-> lastMatchedNode, line |-> line, returned |-> TRUE]
  IN IF child = NoNode THEN stop
     ELSE IF nodes[child].isClosed THEN stop
     ELSE IF nodes[child].type = "blockquote"
     THEN LET blockquote == parseBlockquoteLine(line)
          IN IF blockquote # Null
             THEN ContinueLine([nodes EXCEPT ![child].endLineIndex = lineIndex],
                               child, blockquote.content, lineIndex)
             ELSE stop
     ELSE IF nodes[child].type = "list"
     THEN LET item == LastChild(nodes, child)
          IN IF item = NoNode THEN stop
             ELSE IF nodes[item].isClosed THEN stop
             ELSE IF isLineEmpty(line)
             THEN IF LastChild(nodes, item) = NoNode
                  THEN return(closeRightmostPath(nodes, child))
                  ELSE ContinueLine(nodes, item, line, lineIndex)
             ELSE IF getLeadingNonspaceColumn(line) >= nodes[child].numOfColumns
             THEN ContinueLine(nodes, item, sliceLeadingIndent(line, nodes[child].numOfColumns), lineIndex)
             ELSE stop
     ELSE IF nodes[child].type = "fenced-code-block"
     THEN IF isCodeFenceEnd(line, nodes[child].marker, nodes[child].numOfMarkers)
          THEN return([nodes EXCEPT ![child].endLineIndex = lineIndex, ![child].isClosed = TRUE])
          ELSE return([nodes EXCEPT ![child].endLineIndex = lineIndex,
                                    ![child].lines = Append(@, sliceLeadingIndent(line, nodes[child].indentLevel))])
     ELSE IF nodes[child].type = "indented-code-block"
     THEN IF isIndentedCodeLine(line)
          THEN return([nodes EXCEPT ![child].endLineIndex = lineIndex,
                                    ![child].lines = Append(@, sliceLeadingIndent(line, 4))])
          ELSE IF isLineEmpty(line)
          THEN return([nodes EXCEPT ![child].endLineIndex = lineIndex,
                                    ![child].lines = Append(@, <<>>)])
          ELSE [stop EXCEPT !.nodes = [nodes EXCEPT ![child].isClosed = TRUE]]
     ELSE IF nodes[child].type = "html-block"
     THEN IF nodes[child].canBeInterruptedByBlankLine /\ isLineEmpty(line)
          THEN return([nodes EXCEPT ![child].isClosed = TRUE])
          ELSE return([nodes EXCEPT ![child].endLineIndex = lineIndex,
                                    ![child].lines = Append(@, line),
                                    ![child].isClosed = EndPatternTest(nodes[child].endPattern, Trim(line))])
     ELSE IF nodes[child].type = "paragraph" \/ nodes[child].type = "table"
     THEN IF isLineEmpty(line)
          THEN return([nodes EXCEPT ![child].isClosed = TRUE])
          ELSE stop
     ELSE stop

\* a new internal node
NewNode(type, parent, isClosed, lineIndex) ==
  [BlankNode EXCEPT !.type = type, !.parent = parent, !.isClosed = isClosed,
                    !.startLineIndex = lineIndex, !.endLineIndex = lineIndex]

\* the cells of a table row as parseTableRow gave them
CellsAsParsed(cells, numOfColumns) == cells

\* the cells of a table row, truncated or padded to numOfColumns
FitCells(cells, numOfColumns) ==
  IF Len(cells) > numOfColumns THEN SubSeq(cells, 1, numOfColumns)
  ELSE cells \o [i \in 1..(numOfColumns - Len(cells)) |-> <<>>]

\* an open paragraph as last child of the container, or NoNode
OpenParagraphLastChild(nodes, container) ==
  LET lastChild == LastChild(nodes, container)
  IN IF lastChild # NoNode /\ nodes[lastChild].type = "paragraph" /\ ~nodes[lastChild].isClosed
     THEN lastChild ELSE NoNode

\* a new item joining the last child of the same kind and marker or
\* delimiter whether that list is open or closed
\* no list that an item could join
NoJoinableList(nodes, container, list) == NoNode

JoinableListOpenOrClosed(nodes, container, list) ==
  LET lastChild == LastChild(nodes, container)
  IN IF lastChild # NoNode /\ nodes[lastChild].type = "list"
        /\ nodes[lastChild].kind = list.kind
        /\ (IF list.kind = "ordered" THEN nodes[lastChild].delimiter = list.delimiter
                                     ELSE nodes[lastChild].marker = list.marker)
     THEN lastChild ELSE NoNode

\* the list a new item joins: the open last child of the same kind and
\* marker or delimiter, or NoNode when a new list is needed
JoinableList(nodes, container, list) ==
  LET lastChild == LastChild(nodes, container)
  IN IF lastChild # NoNode /\ nodes[lastChild].type = "list" /\ ~nodes[lastChild].isClosed
        /\ nodes[lastChild].kind = list.kind
        /\ (IF list.kind = "ordered" THEN nodes[lastChild].delimiter = list.delimiter
                                     ELSE nodes[lastChild].marker = list.marker)
     THEN lastChild ELSE NoNode

\* a paragraph that every list item interrupts unless its content is empty
OnlyEmptyCannotInterrupt(list) == isLineEmpty(list.content)

\* the list item of a line that follows an open paragraph is taken as a line
\* of the paragraph
CannotInterruptParagraph(list) ==
  isLineEmpty(list.content) \/ (list.kind = "ordered" /\ list.value # 1)

\* the setext branch of parseLine: paragraph is the open last child of
\* currentContainer and heading the result of parseSetextHeading(line)
SetextHeading(nodes, referenceDefinitions, currentContainer, paragraph, heading, line, lineIndex) ==
  LET originalNumOfLines == Len(nodes[paragraph].lines)
  IN  Bind([taken \in {TakeDefinitions(nodes[paragraph].lines, referenceDefinitions)} |->
  LET lines == taken.lines
  IN IF taken.diverged
     THEN [nodes |-> nodes, referenceDefinitions |-> taken.referenceDefinitions, diverged |-> TRUE]
     ELSE IF Len(lines) > 0
     THEN [nodes |-> addNode(PopChild(nodes, currentContainer),
                             [NewNode("heading", currentContainer, TRUE, lineIndex) EXCEPT
                                !.level = heading.level,
                                !.content = Trim(JoinLines(lines)),
                                !.startLineIndex = nodes[paragraph].startLineIndex
                                                     - (originalNumOfLines - Len(lines))]),
           referenceDefinitions |-> taken.referenceDefinitions, diverged |-> FALSE]
     ELSE [nodes |-> [nodes EXCEPT ![paragraph].lines = Append(@, line)],
           referenceDefinitions |-> taken.referenceDefinitions, diverged |-> FALSE]])

\* The second loop of parseLine: the blocks the rest of the line opens in
\* currentContainer
RECURSIVE OpenBlocks(_, _, _, _, _)
OpenBlocks(nodes, referenceDefinitions, currentContainer, line, lineIndex) ==
  LET done(ns) == [nodes |-> ns, referenceDefinitions |-> referenceDefinitions, diverged |-> FALSE]
      blockquote == parseBlockquoteLine(line)
  IN  Bind([atx \in {parseATXHeading(line)} |->
      Bind([fencedCode \in {parseCodeFenceStart(line)} |->
  LET htmlBlock == parseHTMLBlockStart(line)
      htmlNode == [NewNode("html-block", currentContainer, FALSE, lineIndex) EXCEPT
                     !.endPattern = htmlBlock.endPattern,
                     !.canBeInterruptedByBlankLine = htmlBlock.canBeInterruptedByBlankLine,
                     !.lines = <<line>>,
                     !.isClosed = EndPatternTest(htmlBlock.endPattern, Trim(line))]
      deepestOpenNode == getDeepestOpenNodeOnRightmostPath(nodes, currentContainer)
      htmlOpens == /\ htmlBlock # Null
                   /\ \/ htmlBlock.canInterruptParagraph
                      \/ deepestOpenNode = NoNode
                      \/ nodes[deepestOpenNode].type # "paragraph"
      lastChild == LastChild(nodes, currentContainer)
      paragraph == OpenParagraphLastChild(nodes, currentContainer)
  IN  Bind([table \in {IF paragraph = NoNode THEN Null
                       ELSE parseTableStartLine(nodes[paragraph].lines[Len(nodes[paragraph].lines)], line)} |->
  LET setext == IF paragraph = NoNode THEN Null ELSE parseSetextHeading(line)
  IN  Bind([list \in {parseListItem(line)} |->
  LET joined == JoinableList(nodes, currentContainer, list)
  IN IF blockquote # Null
     THEN LET added == addNode(nodes, NewNode("blockquote", currentContainer, FALSE, lineIndex))
          IN OpenBlocks(added, referenceDefinitions, Len(added), blockquote.content, lineIndex)
     ELSE IF atx # Null
     THEN done(addNode(nodes, [NewNode("heading", currentContainer, TRUE, lineIndex) EXCEPT
                                 !.level = atx.level, !.content = atx.content]))
     ELSE IF fencedCode # Null
     THEN done(addNode(nodes, [NewNode("fenced-code-block", currentContainer, FALSE, lineIndex) EXCEPT
                                 !.indentLevel = fencedCode.indentLevel,
                                 !.numOfMarkers = fencedCode.numOfMarkers,
                                 !.marker = fencedCode.marker,
                                 !.info = fencedCode.info]))
     ELSE IF htmlOpens
     THEN done(addNode(nodes, htmlNode))
     ELSE IF table # Null
     THEN LET popped == [nodes EXCEPT ![paragraph].lines = SubSeq(@, 1, Len(@) - 1)]
              removed == IF Len(popped[paragraph].lines) = 0
                         THEN PopChild(popped, currentContainer) ELSE popped
          IN done(addNode(removed, [NewNode("table", currentContainer, FALSE, lineIndex) EXCEPT
                                      !.alignments = table.alignments, !.head = table.cells]))
     ELSE IF setext # Null
     THEN SetextHeading(nodes, referenceDefinitions, currentContainer, paragraph, setext, line, lineIndex)
     ELSE IF isSeparator(line)
     THEN done(addNode(nodes, NewNode("thematic-break", currentContainer, TRUE, lineIndex)))
     ELSE IF list # Null
     THEN IF paragraph # NoNode /\ CannotInterruptParagraph(list)
          THEN done([nodes EXCEPT ![paragraph].endLineIndex = lineIndex,
                                  ![paragraph].lines = Append(@, line)])
          ELSE
            Bind([withList \in {IF joined # NoNode THEN nodes
                                ELSE addNode(nodes, [NewNode("list", currentContainer, FALSE, lineIndex) EXCEPT
                                                       !.kind = list.kind,
                                                       !.start = list.value,
                                                       !.delimiter = list.delimiter,
                                                       !.marker = list.marker,
                                                       !.numOfColumns = list.numOfColumns,
                                                       !.isTight = TRUE])} |->
            LET parent == IF joined # NoNode THEN joined ELSE Len(withList)
                sized == [withList EXCEPT ![parent].numOfColumns = list.numOfColumns]
                added == addNode(sized, NewNode("list-item", parent, FALSE, lineIndex))
            IN OpenBlocks(added, referenceDefinitions, Len(added), list.content, lineIndex)])
     ELSE IF isIndentedCodeLine(line)
             /\ (deepestOpenNode = NoNode \/ nodes[deepestOpenNode].type # "paragraph")
     THEN done(addNode(nodes, [NewNode("indented-code-block", currentContainer, FALSE, lineIndex) EXCEPT
                                 !.lines = <<sliceLeadingIndent(line, 4)>>]))
     ELSE IF isLineEmpty(line)
     THEN done(closeRightmostPath(nodes, currentContainer))
     ELSE IF lastChild # NoNode /\ nodes[lastChild].type = "table" /\ ~nodes[lastChild].isClosed
     THEN done([nodes EXCEPT ![lastChild].endLineIndex = lineIndex,
                             ![lastChild].rows = Append(@, FitCells(parseTableRow(line),
                                                                    Len(nodes[lastChild].head)))])
     ELSE IF deepestOpenNode # NoNode /\ nodes[deepestOpenNode].type = "paragraph"
     THEN done([nodes EXCEPT ![deepestOpenNode].endLineIndex = lineIndex,
                             ![deepestOpenNode].lines = Append(@, line)])
     ELSE done(addNode(nodes, [NewNode("paragraph", currentContainer, FALSE, lineIndex) EXCEPT
                                 !.lines = <<line>>]))])])])])

\* parseLine(line) with nextLineIndex = lineIndex
parseLine(nodes, referenceDefinitions, line, lineIndex) ==
  Bind([matched \in {ContinueLine(nodes, RootId, line, lineIndex)} |->
     IF matched.returned
     THEN [nodes |-> matched.nodes, referenceDefinitions |-> referenceDefinitions, diverged |-> FALSE]
     ELSE OpenBlocks(matched.nodes, referenceDefinitions, matched.lastMatchedNode, matched.line, lineIndex)])

\* ------------------------------------------------------------------------
\* The end-of-call sweep for link reference definitions
\* ------------------------------------------------------------------------

\* children.splice(0, 1) whatever i is
RemoveFirst(children, i) == Tail(children)

\* children.splice(i, 1) for a 1-based i
RemoveAt(children, i) == SubSeq(children, 1, i - 1) \o SubSeq(children, i + 1, Len(children))

\* a sweep that goes on over open blocks
SweepStopsNowhere(nodes, block) == FALSE

\* if (!block.isClosed) break
SweepStopsAt(nodes, block) == ~nodes[block].isClosed

RECURSIVE SweepChildren(_, _, _, _)
RECURSIVE SweepItems(_, _, _, _)

\* parseReferenceLinkDefinitions(parent), from the i-th child (1-based) on
SweepChildren(nodes, referenceDefinitions, parent, i) ==
  LET stop == [nodes |-> nodes, referenceDefinitions |-> referenceDefinitions, diverged |-> FALSE]
  IN IF i > Len(nodes[parent].children) THEN stop
     ELSE
       LET block == nodes[parent].children[i]
       IN IF SweepStopsAt(nodes, block) THEN stop
          ELSE IF nodes[block].type = "paragraph"
          THEN Bind([taken \in {TakeDefinitions(nodes[block].lines, referenceDefinitions)} |->
                  IF taken.diverged
                  THEN [nodes |-> nodes, referenceDefinitions |-> taken.referenceDefinitions, diverged |-> TRUE]
                  ELSE IF Len(taken.lines) > 0
                  THEN SweepChildren([nodes EXCEPT ![block].lines = taken.lines],
                                     taken.referenceDefinitions, parent, i + 1)
                  ELSE SweepChildren([nodes EXCEPT ![parent].children = RemoveAt(@, i)],
                                     taken.referenceDefinitions, parent, i)])
          ELSE IF nodes[block].type = "blockquote"
          THEN LET inner == SweepChildren(nodes, referenceDefinitions, block, 1)
               IN IF inner.diverged THEN inner
                  ELSE SweepChildren(inner.nodes, inner.referenceDefinitions, parent, i + 1)
          ELSE IF nodes[block].type = "list"
          THEN LET inner == SweepItems(nodes, referenceDefinitions, block, 1)
               IN IF inner.diverged THEN inner
                  ELSE SweepChildren(inner.nodes, inner.referenceDefinitions, parent, i + 1)
          ELSE SweepChildren(nodes, referenceDefinitions, parent, i + 1)

\* for (const item of block.children) parseReferenceLinkDefinitions(item)
SweepItems(nodes, referenceDefinitions, list, j) ==
  IF j > Len(nodes[list].children)
  THEN [nodes |-> nodes, referenceDefinitions |-> referenceDefinitions, diverged |-> FALSE]
  ELSE LET inner == SweepChildren(nodes, referenceDefinitions, nodes[list].children[j], 1)
       IN IF inner.diverged THEN inner
          ELSE SweepItems(inner.nodes, inner.referenceDefinitions, list, j + 1)

parseReferenceLinkDefinitions(nodes, referenceDefinitions, parent) ==
  SweepChildren(nodes, referenceDefinitions, parent, 1)

\* ------------------------------------------------------------------------
\* The inline parser: line breaks, backslash escapes, emphasis, links,
\* code spans, images, autolinks and inline HTML tags. No text that reaches
\* parseInline in this model holds "&", so the branch of parseInline for
\* entities is left out.
\* ------------------------------------------------------------------------

HexDigits == Digits \cup {"a", "b", "c", "d", "e", "f", "A", "B", "C", "D", "E", "F"}

\* `%${hex.padStart(2, "0")}` for the code of an ASCII character that is
\* not alphanumeric
PercentEncoded(c) ==
  CASE c = "\t" -> <<"%", "0", "9">>
    [] c = "\n" -> <<"%", "0", "A">>
    [] c = "\f" -> <<"%", "0", "C">>
    [] c = "\r" -> <<"%", "0", "D">>
    [] c = " " -> <<"%", "2", "0">>
    [] c = "!" -> <<"%", "2", "1">>
    [] c = "\"" -> <<"%", "2", "2">>
    [] c = "#" -> <<"%", "2", "3">>
    [] c = "$" -> <<"%", "2", "4">>
    [] c = "%" -> <<"%", "2", "5">>
    [] c = "&" -> <<"%", "2", "6">>
    [] c = "'" -> <<"%", "2", "7">>
    [] c = "(" -> <<"%", "2", "8">>
    [] c = ")" -> <<"%", "2", "9">>
    [] c = "*" -> <<"%", "2", "A">>
    [] c = "+" -> <<"%", "2", "B">>
    [] c = "," -> <<"%", "2", "C">>
    [] c = "-" -> <<"%", "2", "D">>
    [] c = "." -> <<"%", "2", "E">>
    [] c = "/" -> <<"%", "2", "F">>
    [] c = ":" -> <<"%", "3", "A">>
    [] c = ";" -> <<"%", "3", "B">>
    [] c = "<" -> <<"%", "3", "C">>
    [] c = "=" -> <<"%", "3", "D">>
    [] c = ">" -> <<"%", "3", "E">>
    [] c = "?" -> <<"%", "3", "F">>
    [] c = "@" -> <<"%", "4", "0">>
    [] c = "[" -> <<"%", "5", "B">>
    [] c = "\\" -> <<"%", "5", "C">>
    [] c = "]" -> <<"%", "5", "D">>
    [] c = "^" -> <<"%", "5", "E">>
    [] c = "_" -> <<"%", "5", "F">>
    [] c = Backtick -> <<"%", "6", "0">>
    [] c = "{" -> <<"%", "7", "B">>
    [] c = "|" -> <<"%", "7", "C">>
    [] c = "}" -> <<"%", "7", "D">>
    [] c = "~" -> <<"%", "7", "E">>

\* the ASCII characters the texts of this model are made of
AsciiCharacters ==
  Range(LowerLetters) \cup Range(UpperLetters) \cup Digits \cup AsciiPunctuation
    \cup {"\t", "\n", "\f", "\r", " "}

DEFAULT_ALLOWED_CHARS ==
  <<";", "/", "?", ":", "@", "&", "=", "+", "$", ",", "-", "_", ".", "!", "~", "*", "'", "(",
    ")", "#">>

VARIABLE asciiEncodeTableCache  \* the tables built so far, by their allowed characters;
                                \* one object of the module, shared by all parsers

\* the table getAsciiEncodeTable builds when the cache has none for allowedChars
BuildAsciiEncodeTable(allowedChars) ==
  [c \in AsciiCharacters |->
     IF c \in Range(LowerLetters) \cup Range(UpperLetters) \cup Digits THEN <<c>>
     ELSE IF c \in Range(allowedChars) THEN <<c>>
     ELSE PercentEncoded(c)]

\* the table getAsciiEncodeTable(allowedChars) returns
getAsciiEncodeTable(allowedChars) ==
  IF allowedChars \in DOMAIN asciiEncodeTableCache
  THEN asciiEncodeTableCache[allowedChars]
  ELSE BuildAsciiEncodeTable(allowedChars)

\* a cache that is given, for the default allowed characters, the table of
\* no allowed character
CacheWithBareTable(encoded) ==
  IF encoded /\ DEFAULT_ALLOWED_CHARS \notin DOMAIN asciiEncodeTableCache
  THEN (DEFAULT_ALLOWED_CHARS :> BuildAsciiEncodeTable(<<>>)) @@ asciiEncodeTableCache
  ELSE asciiEncodeTableCache

\* the cache after a call: getAsciiEncodeTable stores the table it built;
\* it is entered, with the default allowed characters, by every
\* encodeUnsafeChars, that is whenever a link or an image node is made
CacheAfter(encoded) ==
  IF encoded /\ DEFAULT_ALLOWED_CHARS \notin DOMAIN asciiEncodeTableCache
  THEN (DEFAULT_ALLOWED_CHARS :> BuildAsciiEncodeTable(DEFAULT_ALLOWED_CHARS))
         @@ asciiEncodeTableCache
  ELSE asciiEncodeTableCache

\* asciiTable[codeUnit] of encodeUnsafeChars
AsciiEncode(c) == getAsciiEncodeTable(DEFAULT_ALLOWED_CHARS)[c]

RECURSIVE encodeUnsafeChars(_)
encodeUnsafeChars(input) ==
  IF Len(input) = 0 THEN <<>>
  ELSE IF input[1] = "%" /\ Len(input) > 2 /\ input[2] \in HexDigits /\ input[3] \in HexDigits
  THEN SubSeq(input, 1, 3) \o encodeUnsafeChars(SubSeq(input, 4, Len(input)))
  ELSE AsciiEncode(input[1]) \o encodeUnsafeChars(Tail(input))

\* the loop of parseLinkTitle: the index of the closing quote, or -1
RECURSIVE LinkTitleEnd(_, _, _, _)
LinkTitleEnd(input, endIndex, openingQuoteCharacter, closingQuoteCharacter) ==
  IF endIndex >= Len(input) THEN -1
  ELSE
    LET character == CharAt(input, endIndex)
    IN IF character = closingQuoteCharacter THEN endIndex
       ELSE IF character = "(" /\ openingQuoteCharacter = "(" THEN -1
       ELSE IF character = "\\" /\ endIndex + 1 < Len(input)
       THEN LinkTitleEnd(input, endIndex + 2, openingQuoteCharacter, closingQuoteCharacter)
       ELSE LinkTitleEnd(input, endIndex + 1, openingQuoteCharacter, closingQuoteCharacter)

parseLinkTitle(input, startIndex) ==
  IF startIndex >= Len(input) THEN Null
  ELSE
    LET openingQuoteCharacter == CharAt(input, startIndex)
        closingQuoteCharacter == IF openingQuoteCharacter = "(" THEN ")" ELSE openingQuoteCharacter
        endIndex == LinkTitleEnd(input, startIndex + 1, openingQuoteCharacter, closingQuoteCharacter)
    IN IF openingQuoteCharacter \notin {"\"", "'", "("} THEN Null
       ELSE IF endIndex < 0 THEN Null
       ELSE [type |-> "title", title |-> unescapeString(Slice(input, startIndex + 1, endIndex)),
             endIndex |-> endIndex]

parseLinkTarget(input, startIndex) ==
  IF CharAt(input, startIndex) # "(" THEN Null
  ELSE
    LET destinationStartIndex ==
          startIndex + getNumOfConsecutiveCharacters(input, {" ", "\t", "\n"}, startIndex + 1) + 1
    IN  Bind([destination \in {parseLinkDestination(input, destinationStartIndex)} |->
       IF destination = Null THEN Null
       ELSE IF destination.endIndex = destinationStartIndex THEN Null
       ELSE
         LET titleStartIndex ==
               destination.endIndex
                 + getNumOfConsecutiveCharacters(input, {" ", "\t", "\n"}, destination.endIndex + 1) + 1
         IN  Bind([title \in {parseLinkTitle(input, titleStartIndex)} |->
         LET afterTitle == IF title # Null THEN title.endIndex ELSE destination.endIndex
             targetEndIndex ==
               afterTitle + getNumOfConsecutiveCharacters(input, {" ", "\t", "\n"}, afterTitle + 1) + 1
         IN IF CharAt(input, targetEndIndex) # ")" THEN Null
            ELSE [type |-> "target", href |-> destination.href,
                  title |-> IF title # Null THEN title.title ELSE Undefined,
                  endIndex |-> targetEndIndex]])])

\* the loop of parseReferenceLinkLabel; exit "label" at the closing bracket
RECURSIVE ReferenceLabelLoop(_, _, _)
ReferenceLabelLoop(input, endIndex, label) ==
  IF endIndex >= Len(input) THEN [exit |-> "null", label |-> label, endIndex |-> endIndex]
  ELSE
    LET character == CharAt(input, endIndex)
        nextCharacter == CharAt(input, endIndex + 1)
    IN IF Len(label) > 999 THEN [exit |-> "null", label |-> label, endIndex |-> endIndex]
       ELSE IF character = "\\"
       THEN IF nextCharacter \in {"]", "[", "\\"}
            THEN ReferenceLabelLoop(input, endIndex + 2, Append(label, nextCharacter))
            ELSE ReferenceLabelLoop(input, endIndex + 1, Append(label, character))
       ELSE IF character = "[" THEN [exit |-> "null", label |-> label, endIndex |-> endIndex]
       ELSE IF character = "]"
       THEN IF Len(Trim(label)) = 0
            THEN [exit |-> "null", label |-> label, endIndex |-> endIndex]
            ELSE [exit |-> "label", label |-> label, endIndex |-> endIndex]
       ELSE ReferenceLabelLoop(input, endIndex + 1, Append(label, character))

parseReferenceLinkLabel(input, startIndex) ==
  IF startIndex >= Len(input) THEN Null
  ELSE IF CharAt(input, startIndex) # "[" THEN Null
  ELSE IF CharAt(input, startIndex + 1) = "]"
  THEN [type |-> "label", label |-> <<>>, endIndex |-> startIndex + 1]
  ELSE LET r == ReferenceLabelLoop(input, startIndex + 1, <<>>)
       IN IF r.exit = "null" THEN Null
          ELSE [type |-> "label", label |-> r.label, endIndex |-> r.endIndex]

\* the loop of extractLinkLabel; tooLong when the label passed 999 characters
RECURSIVE ExtractLabelLoop(_, _, _, _)
ExtractLabelLoop(input, index, endIndex, label) ==
  IF index >= endIndex \/ index >= Len(input) THEN [tooLong |-> FALSE, label |-> label]
  ELSE IF Len(label) > 999 THEN [tooLong |-> TRUE, label |-> label]
  ELSE
    LET character == CharAt(input, index)
    IN IF character = "\\"
       THEN IF CharAt(input, index + 1) \in {"]", "[", "\\"}
            THEN ExtractLabelLoop(input, index + 2, endIndex, Append(label, CharAt(input, index + 1)))
            ELSE ExtractLabelLoop(input, index + 1, endIndex, Append(label, character))
       ELSE ExtractLabelLoop(input, index + 1, endIndex, Append(label, character))

\* extractLinkLabel(input, {startIndex, endIndex}): [type "label"] or Null
extractLinkLabel(input, startIndex, endIndex) ==
  LET r == ExtractLabelLoop(input, startIndex, endIndex, <<>>)
  IN IF r.tooLong THEN Null
     ELSE IF Len(Trim(r.label)) = 0 THEN Null
     ELSE [type |-> "label", label |-> r.label]

\* an inline node; the fields a type does not use stay at these defaults
InlineNode(type) ==
  [type |-> type, text |-> <<>>, href |-> <<>>, title |-> Undefined, children |-> <<>>]

TextNode(text) == [InlineNode("text") EXCEPT !.text = text]

\* isUnicodePunctuationCharacter on an ASCII character: the ASCII characters
\* of the categories P and S are the ASCII punctuation characters
isUnicodePunctuationCharacter(character) == character \in AsciiPunctuation

\* isWhiteSpaceCharacter on an ASCII character
isWhiteSpaceCharacter(character) == character \in {"\t", "\n", "\f", "\r", " "}

\* the "*" and "_" branch of parseInline: the emphasis-delimiter node of the
\* run of markers that starts at characterCursor
EmphasisDelimiter(input, characterCursor) ==
  LET marker == CharAt(input, characterCursor)
      numOfMarkers == getNumOfConsecutiveCharacters(input, {marker}, characterCursor)
      previousCharacter == IF characterCursor >= 1 THEN CharAt(input, characterCursor - 1) ELSE " "
      nextCharacter == IF characterCursor + numOfMarkers < Len(input)
                       THEN CharAt(input, characterCursor + numOfMarkers) ELSE " "
      isPreviousCharacterPunctuation ==
        isAsciiPunctuationCharacter(previousCharacter)
          \/ isUnicodePunctuationCharacter(previousCharacter)
      isNextCharacterPunctuation ==
        isAsciiPunctuationCharacter(nextCharacter) \/ isUnicodePunctuationCharacter(nextCharacter)
      isPreviousCharacterWhitespace == isWhiteSpaceCharacter(previousCharacter)
      isNextCharacterWhitespace == isWhiteSpaceCharacter(nextCharacter)
      isLeftFlanking ==
        /\ ~isNextCharacterWhitespace
        /\ \/ ~isNextCharacterPunctuation
           \/ isPreviousCharacterWhitespace
           \/ isPreviousCharacterPunctuation
      isRightFlanking ==
        /\ ~isPreviousCharacterWhitespace
        /\ \/ ~isPreviousCharacterPunctuation
           \/ isNextCharacterWhitespace
           \/ isNextCharacterPunctuation
  IN [type |-> "emphasis-delimiter", marker |-> marker,
      canOpen |-> IF marker = "*" THEN isLeftFlanking
                  ELSE isLeftFlanking /\ (~isRightFlanking \/ isPreviousCharacterPunctuation),
      canClose |-> IF marker = "*" THEN isRightFlanking
                   ELSE isRightFlanking /\ (~isLeftFlanking \/ isNextCharacterPunctuation),
      count |-> numOfMarkers,
      content |-> [i \in 1..numOfMarkers |-> marker]]

\* the rule of three applied only when each of the two runs can both open
\* and close
BothCanOpenAndClose(node, closer) ==
  /\ node.canClose /\ closer.canOpen
  /\ (node.count + closer.count) % 3 = 0
  /\ (node.count % 3 # 0 \/ closer.count % 3 # 0)

\* the test of findMatchingOpenerForCloser that makes it pass over a
\* delimiter that can open and has the closer's marker
ViolatesRuleOfThree(node, closer) ==
  /\ (node.canClose \/ closer.canOpen)
  /\ (node.count + closer.count) % 3 = 0
  /\ (node.count % 3 # 0 \/ closer.count % 3 # 0)

\* the loop of findMatchingOpenerForCloser from index i downwards: the index
\* of the opener, or -1 for null
RECURSIVE FindOpenerFrom(_, _, _)
FindOpenerFrom(nodes, closer, i) ==
  IF i < 0 THEN -1
  ELSE IF nodes[i + 1].type # "emphasis-delimiter" THEN FindOpenerFrom(nodes, closer, i - 1)
  ELSE IF ~nodes[i + 1].canOpen THEN FindOpenerFrom(nodes, closer, i - 1)
  ELSE IF nodes[i + 1].marker # closer.marker THEN FindOpenerFrom(nodes, closer, i - 1)
  ELSE IF ViolatesRuleOfThree(nodes[i + 1], closer) THEN FindOpenerFrom(nodes, closer, i - 1)
  ELSE i

findMatchingOpenerForCloser(nodes, closer, index) == FindOpenerFrom(nodes, closer, index - 1)

\* nodes.map of parseEmphasisDelimiterNodes: a delimiter becomes the text
\* that is left of it
DelimitersAsText(nodes) ==
  [i \in 1..Len(nodes) |->
     IF nodes[i].type = "emphasis-delimiter" THEN TextNode(nodes[i].content) ELSE nodes[i]]

\* one pass of the while loop of parseEmphasisDelimiterNodes on
\* [result, closerIndex], entered with closerIndex < result.length
EmphasisIteration(st) ==
  LET result == st.result
      closerIndex == st.closerIndex
      closer == result[closerIndex + 1]
  IN IF closer.type # "emphasis-delimiter" THEN [st EXCEPT !.closerIndex = closerIndex + 1]
     ELSE IF ~closer.canClose THEN [st EXCEPT !.closerIndex = closerIndex + 1]
     ELSE
       Bind([openerIndex \in {findMatchingOpenerForCloser(result, closer, closerIndex)} |->
       IF openerIndex = -1
       THEN [result |-> IF ~closer.canOpen
                        THEN [result EXCEPT ![closerIndex + 1] = TextNode(closer.content)]
                        ELSE result,
             closerIndex |-> closerIndex + 1]
       ELSE
         LET opener == result[openerIndex + 1]
             isStrong == Len(opener.content) >= 2 /\ Len(closer.content) >= 2
             taken == IF isStrong THEN 2 ELSE 1
             openerLeft == [opener EXCEPT !.content = Slice(@, 0, Len(@) - taken)]
             closerLeft == [closer EXCEPT !.content = SliceFrom(@, taken)]
             children == DelimitersAsText(Slice(result, openerIndex + 1, closerIndex))
             wrapped == [InlineNode(IF isStrong THEN "strong" ELSE "emphasis")
                           EXCEPT !.children = children]
         IN [result |->
               Slice(result, 0, openerIndex)
                 \o (IF Len(openerLeft.content) = 0 THEN <<>> ELSE <<openerLeft>>)
                 \o <<wrapped>>
                 \o (IF Len(closerLeft.content) = 0 THEN <<>> ELSE <<closerLeft>>)
                 \o SliceFrom(result, closerIndex + 1),
             closerIndex |-> openerIndex + 1]])

\* the while loop of parseEmphasisDelimiterNodes
RECURSIVE EmphasisLoop(_)
EmphasisLoop(st) ==
  IF st.closerIndex >= Len(st.result) THEN st.result ELSE EmphasisLoop(EmphasisIteration(st))

parseEmphasisDelimiterNodes(inlines) ==
  DelimitersAsText(EmphasisLoop([result |-> inlines, closerIndex |-> 0]))

RECURSIVE mergeAdjacentTextNodes(_)
mergeAdjacentTextNodes(inlines) ==
  IF Len(inlines) = 0 THEN <<>>
  ELSE
    LET result == mergeAdjacentTextNodes(SubSeq(inlines, 1, Len(inlines) - 1))
        node == inlines[Len(inlines)]
    IN IF node.type = "text"
       THEN IF Len(result) > 0 /\ result[Len(result)].type = "text"
            THEN [result EXCEPT ![Len(result)].text = @ \o node.text]
            ELSE Append(result, node)
       ELSE IF node.type \in {"link", "image", "emphasis", "strong"}
       THEN Append(result, [node EXCEPT !.children = mergeAdjacentTextNodes(node.children)])
       ELSE Append(result, node)

\* the number of spaces that end at index startIndex - 1
RECURSIVE NumOfPrecedingSpaces(_, _, _)
NumOfPrecedingSpaces(input, startIndex, n) ==
  IF startIndex - n - 1 < 0 THEN n
  ELSE IF CharAt(input, startIndex - n - 1) # " " THEN n
  ELSE NumOfPrecedingSpaces(input, startIndex, n + 1)

\* the end of a run of plain text that starts at endIndex
RECURSIVE TextRunEnd(_, _)
TextRunEnd(input, endIndex) ==
  IF endIndex >= Len(input) THEN endIndex
  ELSE IF CharAt(input, endIndex) \in {"\n", "\\", Backtick, "*", "_", "[", "]", "!", "<", "&"}
  THEN endIndex
  ELSE TextRunEnd(input, endIndex + 1)

\* the end of the longest run from index i of characters of [^<>\x00-\x20]
RECURSIVE AutolinkBodyEnd(_, _)
AutolinkBodyEnd(input, i) ==
  IF i >= Len(input) THEN i
  ELSE IF CharAt(input, i) \in {"<", ">", " "} \/ IsControlCharacter(CharAt(input, i)) THEN i
  ELSE AutolinkBodyEnd(input, i + 1)

\* input.slice(characterCursor).match(AUTOLINK_REGEX): the length of the
\* match, 0 if there is none. No character class of the expression holds
\* the character that must follow it, so each run is the longest one.
AutolinkMatch(input, characterCursor) ==
  LET schemeLength ==
        getNumOfConsecutiveCharacters(input, Alphanumerics \cup {".", "+", "-"},
                                      characterCursor + 2)
      colonIndex == characterCursor + 2 + schemeLength
      endIndex == AutolinkBodyEnd(input, colonIndex + 1)
  IN IF /\ CharAt(input, characterCursor) = "<"
        /\ CharAt(input, characterCursor + 1) \in Letters
        /\ schemeLength >= 1 /\ schemeLength <= 31
        /\ CharAt(input, colonIndex) = ":"
        /\ CharAt(input, endIndex) = ">"
     THEN endIndex + 1 - characterCursor
     ELSE 0

\* a domain of EMAIL_REGEX: labels of 1 to 63 letters, digits and hyphens
\* that begin and end with a letter or digit, joined by dots
IsEmailDomain(domain) ==
  /\ Len(domain) > 0
  /\ domain[1] \in Alphanumerics /\ domain[Len(domain)] \in Alphanumerics
  /\ \A i \in 1..Len(domain) :
       /\ domain[i] = "." => domain[i - 1] \in Alphanumerics /\ domain[i + 1] \in Alphanumerics
       /\ i + 63 <= Len(domain) => \E j \in i..(i + 63) : domain[j] = "."

\* input.slice(characterCursor).match(EMAIL_REGEX): the length of the match,
\* 0 if there is none
EmailMatch(input, characterCursor) ==
  LET localLength ==
        getNumOfConsecutiveCharacters(input,
          Alphanumerics \cup {".", "!", "#", "$", "%", "&", "'", "*", "+", "/", "=", "?", "^",
                              "_", Backtick, "{", "|", "}", "~", "-"},
          characterCursor + 1)
      atIndex == characterCursor + 1 + localLength
      domainLength ==
        getNumOfConsecutiveCharacters(input, Alphanumerics \cup {"-", "."}, atIndex + 1)
      endIndex == atIndex + 1 + domainLength
  IN IF /\ CharAt(input, characterCursor) = "<"
        /\ localLength >= 1
        /\ CharAt(input, atIndex) = "@"
        /\ IsEmailDomain(Slice(input, atIndex + 1, endIndex))
        /\ CharAt(input, endIndex) = ">"
     THEN endIndex + 1 - characterCursor
     ELSE 0

\* the "<" branch of parseInline: the node pushed and the characters taken
AngleBracket(input, characterCursor) ==
  LET emailLength == EmailMatch(input, characterCursor)
      uriLength == AutolinkMatch(input, characterCursor)
      htmlLength == HtmlTagMatch(input, characterCursor)
      email == Slice(input, characterCursor + 1, characterCursor + emailLength - 1)
      uri == Slice(input, characterCursor + 1, characterCursor + uriLength - 1)
  IN IF emailLength > 0
     THEN [node |-> [InlineNode("link") EXCEPT
                       !.href = encodeUnsafeChars(<<"m", "a", "i", "l", "t", "o", ":">> \o email),
                       !.children = <<TextNode(email)>>],
           length |-> emailLength]
     ELSE IF uriLength > 0
     THEN [node |-> [InlineNode("link") EXCEPT !.href = encodeUnsafeChars(uri),
                                                !.children = <<TextNode(uri)>>],
           length |-> uriLength]
     ELSE IF htmlLength > 0
     THEN [node |-> [type |-> "html",
                     content |-> Slice(input, characterCursor, characterCursor + htmlLength)],
           length |-> htmlLength]
     ELSE [node |-> TextNode(<<"<">>), length |-> 1]

\* the "]" branch of parseInline; st is [nodes, brackets, characterCursor],
\* a bracket is [marker, node (its index in nodes), startIndex, isActive]
CloseBracket(input, referenceDefinitions, st) ==
  LET startIndex == st.characterCursor
      hasOpener == Len(st.brackets) > 0
      openerBracket == st.brackets[Len(st.brackets)]
      brackets == SubSeq(st.brackets, 1, Len(st.brackets) - 1)
      asText == [nodes |-> Append(st.nodes, TextNode(<<"]">>)), brackets |-> brackets,
                 characterCursor |-> startIndex + 1]
  IN IF ~hasOpener THEN [asText EXCEPT !.brackets = <<>>]
     ELSE IF ~openerBracket.isActive THEN asText
     ELSE
       Bind([target \in {parseLinkTarget(input, startIndex + 1)} |->
       Bind([referenceLabel \in {parseReferenceLinkLabel(input, startIndex + 1)} |->
       LET linkText ==
             extractLinkLabel(input,
               IF openerBracket.marker = "[" THEN openerBracket.startIndex + 1
               ELSE openerBracket.startIndex + 2,
               startIndex)
       IN  Bind([label \in {IF referenceLabel # Null /\ Len(referenceLabel.label) > 0
                            THEN [type |-> "label", label |-> referenceLabel.label]
                            ELSE linkText} |->
       LET found == label # Null /\ HasReference(referenceDefinitions, normalizeReference(label.label))
           definition == GetReference(referenceDefinitions, normalizeReference(label.label))
           href == IF target # Null THEN target.href ELSE definition.href
           title == IF target # Null THEN target.title ELSE definition.title
           cursor == IF target # Null THEN target.endIndex + 1
                     ELSE IF referenceLabel # Null THEN referenceLabel.endIndex + 1
                     ELSE startIndex + 1
           openerNodeIndex == openerBracket.node
           children == parseEmphasisDelimiterNodes(
                         SubSeq(st.nodes, openerNodeIndex + 1, Len(st.nodes)))
           formed == [InlineNode(IF openerBracket.marker = "[" THEN "link" ELSE "image")
                        EXCEPT !.href = encodeUnsafeChars(href), !.title = title,
                               !.children = children]
       IN IF target = Null /\ ~found THEN asText
          ELSE [nodes |-> Append(SubSeq(st.nodes, 1, openerNodeIndex - 1), formed),
                brackets |->
                  IF openerBracket.marker = "["
                  THEN [i \in 1..Len(brackets) |->
                          IF brackets[i].marker = "["
                          THEN [brackets[i] EXCEPT !.isActive = FALSE] ELSE brackets[i]]
                  ELSE brackets,
                characterCursor |-> cursor]])])])

\* input.indexOf(character, fromIndex), for fromIndex >= 0
RECURSIVE IndexOf(_, _, _)
IndexOf(input, character, fromIndex) ==
  IF fromIndex >= Len(input) THEN -1
  ELSE IF CharAt(input, fromIndex) = character THEN fromIndex
  ELSE IndexOf(input, character, fromIndex + 1)

\* a search that takes the next run of backticks, whatever its length
FindNextBackticks(input, closerIndex, numOfOpeningBackticks) ==
  IndexOf(input, Backtick, closerIndex)

\* the search for the closing backticks of a code span, from closerIndex
\* on: the index of the first run of numOfOpeningBackticks backticks, or
\* -1 (hasClosingBackticks stays false)
RECURSIVE FindClosingBackticks(_, _, _)
FindClosingBackticks(input, closerIndex, numOfOpeningBackticks) ==
  IF closerIndex >= Len(input) THEN -1
  ELSE
    LET found == IndexOf(input, Backtick, closerIndex)
        numOfClosingBackticks == getNumOfConsecutiveCharacters(input, {Backtick}, found)
    IN IF found = -1 THEN -1
       ELSE IF numOfClosingBackticks = numOfOpeningBackticks THEN found
       ELSE FindClosingBackticks(input, found + numOfClosingBackticks, numOfOpeningBackticks)

\* the text of a code span: newlines replaced by spaces, and one space
\* taken from each end if both ends have one and the text is not all
\* white space
CodeSpanText(captured) ==
  LET content == [i \in 1..Len(captured) |-> IF captured[i] = "\n" THEN " " ELSE captured[i]]
  IN IF /\ Len(content) > 0
        /\ content[1] = " "
        /\ content[Len(content)] = " "
        /\ Len(Trim(content)) > 0
     THEN Slice(content, 1, Len(content) - 1)
     ELSE content

\* the "`" branch of parseInline: the node pushed and the cursor after it
CodeSpanOrBackticks(input, characterCursor) ==
  LET numOfOpeningBackticks == getNumOfConsecutiveCharacters(input, {Backtick}, characterCursor)
      openerIndex == characterCursor + numOfOpeningBackticks
      closerIndex == FindClosingBackticks(input, openerIndex, numOfOpeningBackticks)
  IN IF closerIndex # -1
     THEN [node |-> [InlineNode("code-span") EXCEPT
                       !.text = CodeSpanText(Slice(input, openerIndex, closerIndex))],
           characterCursor |-> closerIndex + numOfOpeningBackticks]
     ELSE [node |-> TextNode([i \in 1..numOfOpeningBackticks |-> Backtick]),
           characterCursor |-> characterCursor + numOfOpeningBackticks]

\* the while loop of parseInline
RECURSIVE InlineLoop(_, _, _)
InlineLoop(input, referenceDefinitions, st) ==
  IF st.characterCursor >= Len(input) THEN st.nodes
  ELSE
    LET cursor == st.characterCursor
        marker == CharAt(input, cursor)
        nextCharacter == CharAt(input, cursor + 1)
        last == Len(st.nodes)
    IN IF marker = "\n"
       THEN LET n == NumOfPrecedingSpaces(input, cursor, 0)
                trimmed == IF last > 0 /\ st.nodes[last].type = "text"
                           THEN [st.nodes EXCEPT ![last].text =
                                   Slice(@, 0, Max(Len(@) - n, 0))]
                           ELSE st.nodes
                numOfSpaces == getNumOfConsecutiveCharacters(input, {" "}, cursor + 1)
            IN InlineLoop(input, referenceDefinitions,
                 [st EXCEPT !.nodes = Append(trimmed,
                                        InlineNode(IF n >= 2 THEN "hardbreak" ELSE "softbreak")),
                            !.characterCursor = cursor + 1 + numOfSpaces])
       ELSE IF marker = "\\"
       THEN IF nextCharacter = "\n"
            THEN InlineLoop(input, referenceDefinitions,
                   [st EXCEPT !.nodes = Append(@, InlineNode("hardbreak")),
                              !.characterCursor = cursor + 2
                                + getNumOfConsecutiveCharacters(input, {" ", "\t"}, cursor + 2)])
            ELSE IF isAsciiPunctuationCharacter(nextCharacter)
            THEN InlineLoop(input, referenceDefinitions,
                   [st EXCEPT !.nodes = Append(@, TextNode(<<nextCharacter>>)),
                              !.characterCursor = cursor + 2])
            ELSE InlineLoop(input, referenceDefinitions,
                   [st EXCEPT !.nodes = Append(@, TextNode(<<marker>>)),
                              !.characterCursor = cursor + 1])
       ELSE IF marker = Backtick
       THEN Bind([taken \in {CodeSpanOrBackticks(input, cursor)} |->
              InlineLoop(input, referenceDefinitions,
                [st EXCEPT !.nodes = Append(@, taken.node),
                           !.characterCursor = taken.characterCursor])])
       ELSE IF marker \in {"*", "_"}
       THEN InlineLoop(input, referenceDefinitions,
              [st EXCEPT !.nodes = Append(@, EmphasisDelimiter(input, cursor)),
                         !.characterCursor =
                           cursor + getNumOfConsecutiveCharacters(input, {marker}, cursor)])
       ELSE IF marker = "["
       THEN InlineLoop(input, referenceDefinitions,
              [nodes |-> Append(st.nodes, TextNode(<<"[">>)),
               brackets |-> Append(st.brackets,
                              [marker |-> "[", node |-> last + 1, startIndex |-> cursor,
                               isActive |-> TRUE]),
               characterCursor |-> cursor + 1])
       ELSE IF marker = "!" /\ nextCharacter = "["
       THEN InlineLoop(input, referenceDefinitions,
              [nodes |-> Append(st.nodes, TextNode(<<"!", "[">>)),
               brackets |-> Append(st.brackets,
                              [marker |-> "![", node |-> last + 1, startIndex |-> cursor,
                               isActive |-> TRUE]),
               characterCursor |-> cursor + 2])
       ELSE IF marker = "]"
       THEN InlineLoop(input, referenceDefinitions, CloseBracket(input, referenceDefinitions, st))
       ELSE IF marker = "<"
       THEN Bind([taken \in {AngleBracket(input, cursor)} |->
              InlineLoop(input, referenceDefinitions,
                [st EXCEPT !.nodes = Append(@, taken.node),
                           !.characterCursor = cursor + taken.length])])
       ELSE LET run == TextRunEnd(input, cursor)
                endIndex == IF run = cursor THEN cursor + 1 ELSE run
            IN InlineLoop(input, referenceDefinitions,
                 [st EXCEPT !.nodes = Append(@, TextNode(Slice(input, cursor, endIndex))),
                            !.characterCursor = endIndex])

parseInline(input, referenceDefinitions) ==
  mergeAdjacentTextNodes(parseEmphasisDelimiterNodes(
    InlineLoop(input, referenceDefinitions,
               [nodes |-> <<>>, brackets |-> <<>>, characterCursor |-> 0])))

\* ------------------------------------------------------------------------
\* Conversion of a closed internal block into a public block
\* ------------------------------------------------------------------------

\* the first loop of the indented code block case: skip leading blank lines
RECURSIVE CodeStartIndex(_, _, _)
CodeStartIndex(lines, startIndex, endIndex) ==
  IF startIndex < endIndex /\ isLineEmpty(lines[startIndex + 1])
  THEN CodeStartIndex(lines, startIndex + 1, endIndex)
  ELSE startIndex

\* the second loop of the indented code block case: skip trailing blank lines
RECURSIVE CodeEndIndex(_, _, _)
CodeEndIndex(lines, startIndex, endIndex) ==
  IF endIndex > startIndex /\ isLineEmpty(lines[endIndex + 1])
  THEN CodeEndIndex(lines, startIndex, endIndex - 1)
  ELSE endIndex

RECURSIVE convertInternalBlockToPublicBlock(_, _, _)
convertInternalBlockToPublicBlock(nodes, referenceDefinitions, block) ==
  LET b == nodes[block]
      convertAll(children) ==
        [i \in 1..Len(children) |->
           convertInternalBlockToPublicBlock(nodes, referenceDefinitions, children[i])]
      cellsOf(cells) ==
        [i \in 1..Len(cells) |->
           [align |-> IF i <= Len(b.alignments) THEN b.alignments[i] ELSE "undefined",
            children |-> parseInline(cells[i], referenceDefinitions)]]
  IN CASE b.type = "blockquote" ->
            [type |-> "blockquote", children |-> convertAll(b.children)]
       [] b.type = "heading" ->
            [type |-> "heading", level |-> b.level,
             children |-> parseInline(b.content, referenceDefinitions)]
       [] b.type = "paragraph" ->
            [type |-> "paragraph",
             children |-> parseInline(Trim(JoinLines(b.lines)), referenceDefinitions)]
       [] b.type = "thematic-break" -> [type |-> "thematic-break"]
       [] b.type = "fenced-code-block" ->
            [type |-> "code-block",
             content |-> IF Len(b.lines) > 0 THEN JoinLines(b.lines) \o <<"\n">> ELSE <<>>,
             info |-> b.info]
       [] b.type = "indented-code-block" ->
            LET startIndex == CodeStartIndex(b.lines, 0, Len(b.lines) - 1)
                endIndex == CodeEndIndex(b.lines, startIndex, Len(b.lines) - 1)
            IN [type |-> "code-block",
                content |-> JoinLines(Slice(b.lines, startIndex, endIndex + 1)) \o <<"\n">>]
       [] b.type = "html-block" ->
            [type |-> "html-block", content |-> JoinLines(b.lines)]
       [] b.type = "list" ->
            LET items == [j \in 1..Len(b.children) |->
                            [children |-> convertAll(nodes[b.children[j]].children)]]
            IN IF b.kind = "ordered"
               THEN [type |-> "list", kind |-> "ordered", start |-> b.start,
                     tight |-> b.isTight, items |-> items]
               ELSE [type |-> "list", kind |-> "unordered", marker |-> b.marker,
                     tight |-> b.isTight, items |-> items]
       [] b.type = "table" ->
            [type |-> "table", head |-> [cells |-> cellsOf(b.head)],
             body |-> [rows |-> [r \in 1..Len(b.rows) |-> [cells |-> cellsOf(b.rows[r])]]]]

\* some inline node of the array, at any depth, is a link or an image: the
\* nodes whose href went through encodeUnsafeChars
RECURSIVE InlinesEncoded(_)
InlinesEncoded(inlines) ==
  \E i \in 1..Len(inlines) :
    \/ inlines[i].type \in {"link", "image"}
    \/ inlines[i].type \in {"emphasis", "strong"} /\ InlinesEncoded(inlines[i].children)

\* some returned block holds such an inline node
RECURSIVE BlocksEncoded(_)
BlocksEncoded(blocks) ==
  \E i \in 1..Len(blocks) :
    CASE blocks[i].type \in {"heading", "paragraph"} -> InlinesEncoded(blocks[i].children)
      [] blocks[i].type = "blockquote" -> BlocksEncoded(blocks[i].children)
      [] blocks[i].type = "list" ->
           \E j \in 1..Len(blocks[i].items) : BlocksEncoded(blocks[i].items[j].children)
      [] blocks[i].type = "table" ->
           \/ \E c \in 1..Len(blocks[i].head.cells) :
                InlinesEncoded(blocks[i].head.cells[c].children)
           \/ \E r \in 1..Len(blocks[i].body.rows) :
                \E c \in 1..Len(blocks[i].body.rows[r].cells) :
                  InlinesEncoded(blocks[i].body.rows[r].cells[c].children)
      [] OTHER -> FALSE

\* ------------------------------------------------------------------------
\* MarkdownParser.parse
\* ------------------------------------------------------------------------

\* new MarkdownParser()
InitParser ==
  [splitter |-> InitSplitter, nodes |-> InitNodes, nextLineIndex |-> 0, nextNodeIndex |-> 0,
   referenceDefinitions |-> <<>>]

\* the loop over the lines of one call; line.replace(/\0/g, "�") changes
\* nothing, no character set of this model holds NUL
RECURSIVE ParseLines(_, _, _, _)
ParseLines(nodes, referenceDefinitions, lines, lineIndex) ==
  IF Len(lines) = 0
  THEN [nodes |-> nodes, referenceDefinitions |-> referenceDefinitions, diverged |-> FALSE]
  ELSE Bind([r \in {parseLine(nodes, referenceDefinitions, Head(lines), lineIndex)} |->
          IF r.diverged THEN r
          ELSE ParseLines(r.nodes, r.referenceDefinitions, Tail(lines), lineIndex + 1)])

\* the rightmost path closed at the end of every call, streamed or not
FinalizeAlways(nodes, stream) == closeRightmostPath(nodes, RootId)

\* the rightmost path closed at the end of no call
FinalizeNever(nodes, stream) == nodes

\* if (!stream) closeRightmostPath(this.root)
Finalize(nodes, stream) ==
  IF ~stream THEN closeRightmostPath(nodes, RootId) ELSE nodes

\* a harvest loop without the isClosed test: it runs to the last root child
HarvestToLast(nodes, i) == Max(i, Len(nodes[RootId].children))

\* the harvest loop: the index (0-based) of the first root child from i on
\* that is missing or not closed
RECURSIVE HarvestEnd(_, _)
HarvestEnd(nodes, i) ==
  IF i >= Len(nodes[RootId].children) THEN i
  ELSE IF ~nodes[nodes[RootId].children[i + 1]].isClosed THEN i
  ELSE HarvestEnd(nodes, i + 1)

\* a harvest loop that starts at the first root child in every call
HarvestFromFirst(nextNodeIndex) == 0

\* let i = this.nextNodeIndex
HarvestStart(nextNodeIndex) == nextNodeIndex

\* a harvest loop that pushes the blocks it visits last to first
HarvestReversed(nodes, first, end) ==
  LET visited == Slice(nodes[RootId].children, first, end)
  IN [k \in 1..Len(visited) |-> visited[Len(visited) + 1 - k]]

\* the nodes the harvest loop visits, in the order it pushes their blocks
HarvestOrder(nodes, first, end) == Slice(nodes[RootId].children, first, end)

\* a harvest that leaves nextNodeIndex where it was
KeepNodeIndex(nextNodeIndex, i) == nextNodeIndex

\* this.nextNodeIndex = i
AdvanceNodeIndex(nextNodeIndex, i) == i

\* parse with the harvest ahead of the sweep: the returned blocks are
\* converted against the store as the lines of the call left it
parseHarvestingBeforeSweep(p, input, stream) ==
  LET split == Split(p.splitter, input, stream)
      parsed == ParseLines(p.nodes, p.referenceDefinitions, split.lines, p.nextLineIndex)
      finalized == Finalize(parsed.nodes, stream)
      swept == parseReferenceLinkDefinitions(finalized, parsed.referenceDefinitions, RootId)
      first == HarvestStart(p.nextNodeIndex)
      end == HarvestEnd(finalized, first)
      ids == HarvestOrder(finalized, first, end)
  IN IF parsed.diverged \/ swept.diverged
     THEN [parser |-> p, blocks |-> <<>>, ids |-> <<>>, diverged |-> TRUE]
     ELSE [parser |-> [splitter |-> split.sp, nodes |-> swept.nodes,
                       nextLineIndex |-> p.nextLineIndex + Len(split.lines),
                       nextNodeIndex |-> AdvanceNodeIndex(p.nextNodeIndex, end),
                       referenceDefinitions |-> swept.referenceDefinitions],
           blocks |-> [k \in 1..Len(ids) |->
                         convertInternalBlockToPublicBlock(finalized,
                                                           parsed.referenceDefinitions, ids[k])],
           ids |-> ids, diverged |-> FALSE]

\* parse(input, {stream}) on parser p: the parser afterwards, the returned
\* blocks, the internal nodes they were converted from, and whether the call
\* entered a loop it never leaves
parse(p, input, stream) ==
  LET split == Split(p.splitter, input, stream)
  IN  Bind([parsed \in {ParseLines(p.nodes, p.referenceDefinitions, split.lines, p.nextLineIndex)} |->
  Bind([swept \in {parseReferenceLinkDefinitions(Finalize(parsed.nodes, stream),
                                                 parsed.referenceDefinitions, RootId)} |->
  LET first == HarvestStart(p.nextNodeIndex)
      end == HarvestEnd(swept.nodes, first)
      ids == HarvestOrder(swept.nodes, first, end)
  IN IF parsed.diverged \/ swept.diverged
     THEN [parser |-> p, blocks |-> <<>>, ids |-> <<>>, diverged |-> TRUE]
     ELSE [parser |-> [splitter |-> split.sp, nodes |-> swept.nodes,
                       nextLineIndex |-> p.nextLineIndex + Len(split.lines),
                       nextNodeIndex |-> AdvanceNodeIndex(p.nextNodeIndex, end),
                       referenceDefinitions |-> swept.referenceDefinitions],
           blocks |-> [k \in 1..Len(ids) |->
                         convertInternalBlockToPublicBlock(swept.nodes,
                                                           swept.referenceDefinitions, ids[k])],
           ids |-> ids, diverged |-> FALSE]])])

\* ------------------------------------------------------------------------
\* The chunks the calls of the model draw from
\* ------------------------------------------------------------------------

\* an ATX heading whose content is a shortcut reference link
HeadingChunk == <<"#", " ", "[", "a", "]", "\n">>

\* a shortcut reference link, the start of a line that is not ended yet
ReferenceChunk == <<"[", "a", "]">>

\* a line ending, a blank line and a link reference definition
DefinitionChunk == <<"\n", "\n", "[", "a", "]", ":", " ", "/", "x", "\n">>

\* another definition for the label of DefinitionChunk, a text line and a
\* setext underline
SetextChunk == <<"[", "A", "]", ":", " ", "/", "y", "\n", "T", "\n", "=", "=", "=", "\n">>

\* a line ending, then a block quote that holds a definition, a blank line
\* and the start of a paragraph
QuotedDefinitionChunk == <<"\n", ">", " ", "[", "a", "]", ":", " ", "/", "x", "\n", ">", "\n", ">", " ", "b">>

\* a bullet list item
ListChunk == <<"-", " ", "b", "\n">>

\* a definition whose title is never closed and whose line ends in a
\* backslash
UnterminatedTitleChunk == <<"[", "a", "]", ":", " ", "/", "x", " ", "\"", "t", "\\", "\n">>

\* text that ends in a carriage return
CRChunk == <<"b", "\r">>

\* the empty chunk
EmptyChunk == <<>>

\* a line feed and the start of the next line
LFChunk == <<"\n", "c">>

\* a blank line
BlankLine == <<"\n">>

\* a line of text indented by two columns, the content column of ListChunk
ChildLine == <<" ", " ", "c", "\n">>

\* a bullet list item whose content is an indented code line
CodeItemLine == <<"-", " ", " ", " ", " ", " ", "c", "\n">>

\* a line of text that is not indented
TextLine == <<"a", "\n">>

\* a bullet list item nested in the item of ListChunk
NestedItemLine == <<" ", " ", "-", " ", "d", "\n">>

\* the lines fed to a parser that builds lists
ListLines == {ListChunk, BlankLine, ChildLine, CodeItemLine, TextLine, NestedItemLine}

\* a one-cell table row
CellLine == <<"|", "a", "|", "\n">>

\* the lines fed to a parser that builds paragraphs: text, a one-cell row,
\* a link reference definition, bullet items without content ("*" and "-"),
\* ordered items that start at 2 and at 1, a quoted text line, a quoted
\* bullet item without content, and a blank line
ParagraphLines ==
  {TextLine, CellLine, <<"[", "a", "]", ":", " ", "/", "x", "\n">>, <<"*", "\n">>, <<"-", "\n">>, <<"2", ".", " ", "b", "\n">>,
   <<"1", ".", " ", "b", "\n">>, <<">", " ", "a", "\n">>, <<">", " ", "*", "\n">>, BlankLine}

\* a table row of two cells, a header
HeaderLine == <<"|", "a", "|", "b", "|", "\n">>

\* a delimiter row of two cells
DelimiterLine == <<"|", "-", "|", "-", "|", "\n">>

\* the lines fed to a parser that builds tables: a header, a delimiter row,
\* rows of one and of three cells, a blank line, a block quote line, an ATX
\* heading and a bullet list item
TableLines ==
  {HeaderLine, DelimiterLine, CellLine, <<"|", "c", "|", "d", "|", "e", "|", "\n">>, BlankLine,
   <<">", " ", "q", "\n">>, <<"#", " ", "h", "\n">>, ListChunk}

\* the lines fed to a parser that starts tables: headers of two, one and no
\* cell, delimiter rows of two cells, of one cell and of dashes only, and a
\* blank line
TableStartLines ==
  {HeaderLine, CellLine, <<"|", "\n">>, DelimiterLine, <<"|", "-", "|", "\n">>, <<"-", "-", "\n">>,
   BlankLine}

\* a fence of three backticks
FenceLine == <<Backtick, Backtick, Backtick, "\n">>

\* the chunks fed to a parser that builds fenced code: a fence of three
\* backticks, the same indented by two and by four columns, the same cut in
\* two chunks, a fence of four backticks, a fence of three tildes, a fence of
\* three backticks followed by a word, a text line indented by three columns
\* and a blank line
FenceChunks ==
  {FenceLine, <<" ", " ">> \o FenceLine, <<" ", " ", " ", " ">> \o FenceLine,
   <<Backtick, Backtick>>, <<Backtick, "\n">>, <<Backtick>> \o FenceLine,
   <<"~", "~", "~", "\n">>, <<Backtick, Backtick, Backtick, " ", "y", "\n">>,
   <<" ", " ", " ", "x", "\n">>, BlankLine}

\* the lines fed to a parser that builds a tree of nested blocks: text, a
\* blank line, a blank line of four spaces, a bullet item inside a block
\* quote, a bullet item without content (a setext underline after a
\* paragraph), a bullet item, a delimiter row of one cell (a table start
\* after a paragraph of one cell) and a fence
TreeLines ==
  {TextLine, BlankLine, <<" ", " ", " ", " ", "\n">>, <<">", " ", "-", " ", "b", "\n">>,
   <<"-", "\n">>, ListChunk, <<"|", "-", "|", "\n">>, FenceLine}

\* the lines fed to a parser that builds setext headings: text, a link
\* reference definition, underlines of "=" and of "-", an underline indented
\* by three columns, a "=" indented by four, a quoted text line, a quoted
\* underline, a one-cell table row and a blank line
SetextLines ==
  {TextLine, CellLine, <<"[", "a", "]", ":", " ", "/", "x", "\n">>, <<"=", "\n">>, <<"-", "\n">>,
   <<" ", " ", " ", "=", "=", "\n">>, <<" ", " ", " ", " ", "=", "\n">>,
   <<">", " ", "a", "\n">>, <<">", " ", "=", "\n">>, BlankLine}

\* the lines fed to a parser that meets indented lines: text, text indented
\* by four columns, by a tab and by six columns, a quoted text line, a
\* quoted line indented by five columns, a bullet item, a bullet item whose
\* content starts four columns after the marker, a line of four spaces and
\* a blank line
IndentLines ==
  {TextLine, <<" ", " ", " ", " ", "c", "\n">>, <<"\t", "c", "\n">>,
   <<" ", " ", " ", " ", " ", " ", "c", "\n">>, <<">", " ", "a", "\n">>,
   <<">", " ", " ", " ", " ", " ", " ", "c", "\n">>, ListChunk,
   <<"-", " ", " ", " ", " ", "b", "\n">>, <<" ", " ", " ", " ", "\n">>, BlankLine}

\* lines that start, continue and end HTML blocks: a comment start, a
\* comment end, a whole comment, a tag that can interrupt a paragraph and
\* one that cannot, a raw-text start and its end in upper case, a comment
\* start in a block quote, and blank lines
HtmlLines ==
  {TextLine, <<"<", "!", "-", "-", "\n">>, <<"-", "-", ">", "\n">>,
   <<"<", "!", "-", "-", "-", "-", ">", "\n">>, <<"<", "p", ">", "\n">>,
   <<"<", "a", ">", "\n">>, <<"<", "p", "r", "e", ">", "\n">>,
   <<"<", "/", "P", "R", "E", ">", " ", "\n">>, <<">", " ", "<", "!", "-", "-", "\n">>,
   <<" ", " ", "\n">>, BlankLine}

\* lines that make and follow list items without content: bullet and
\* ordered items without content, items with content of the same and of
\* other markers and delimiters, a blank line, and text at the content
\* column of a bullet item, of an ordered item, and at the margin
ItemLines ==
  {<<"-", "\n">>, <<"1", ".", "\n">>, ListChunk, <<"+", " ", "b", "\n">>,
   <<"2", ".", " ", "b", "\n">>, <<"1", ")", " ", "b", "\n">>, BlankLine,
   <<" ", " ", "c", "\n">>, <<" ", " ", " ", "c", "\n">>, TextLine}

\* chunks that cut heading lines anywhere: an ATX heading without its line
\* ending and with it, one with a closing sequence, a line feed, a carriage
\* return, a line feed followed by text, text without and with its line
\* ending, a setext underline, a heading in a block quote, and no text
HeadingChunks ==
  {<<"#", " ", "h">>, <<"#", " ", "h", "\n">>, <<"#", "#", " ", "h", " ", "#", "\n">>,
   <<"\n">>, <<"\r">>, LFChunk, <<"a">>, TextLine, <<"=", "\n">>,
   <<">", " ", "#", " ", "h", "\n">>, EmptyChunk}

StreamChunks ==
  {HeadingChunk, ReferenceChunk, DefinitionChunk, SetextChunk, QuotedDefinitionChunk,
   ListChunk, UnterminatedTitleChunk, CRChunk, EmptyChunk, LFChunk}

NonStreamChunks == {EmptyChunk, DefinitionChunk}

\* the characters of the chunks given to a LineSplitter on its own
SplitAlphabet == {"a", "\r", "\n"}

\* the chunks of at most two characters over SplitAlphabet
SplitChunks ==
  {<<>>} \cup {<<x>> : x \in SplitAlphabet} \cup {<<x, y>> : x \in SplitAlphabet, y \in SplitAlphabet}

\* chunks of two letters and the line endings, cut anywhere: no text, each
\* letter, each line ending, both letters, a letter before a CR, a letter
\* after an LF and before one, and a CRLF
LetterChunks ==
  {<<>>, <<"a">>, <<"b">>, <<"\r">>, <<"\n">>, <<"a", "b">>, <<"a", "\r">>, <<"\n", "b">>,
   <<"b", "\n">>, <<"\r", "\n">>}

\* the most calls one parser receives
MaxCalls == 3

\* the most calls one LineSplitter receives
MaxSplits == 3

\* the most chunks fed to one parser before it is flushed
MaxFeeds == 3

\* the most lines fed to a parser that builds lists
MaxListLines == 5

\* the most lines fed to a parser that builds paragraphs
MaxParagraphLines == 3

\* the most lines fed to a parser that builds tables
MaxTableLines == 4

\* the most lines fed to a parser that starts tables
MaxTableStartLines == 3

\* the most chunks fed to a parser that builds fenced code
MaxFenceChunks == 4

\* the most lines fed to a parser that builds setext headings
MaxSetextLines == 3

\* the most lines fed to a parser that meets indented lines
MaxIndentLines == 3

\* the most lines fed to a parser that builds HTML blocks
MaxHtmlLines == 3

\* the most lines fed to a parser that builds items without content
MaxItemLines == 4

\* the most chunks fed to a parser that builds headings
MaxHeadingChunks == 4

\* the most calls made on a parser that builds a tree of nested blocks
MaxTreeLines == 4

\* the pieces of the sources that define one label more than once: a
\* definition of the label, another one with another destination, a blank
\* line, a text line with a setext underline, and a reference to the label
DefinitionPieces ==
  {<<"[", "a", "]", ":", " ", "/", "x", "\n">>, <<"[", "A", "]", ":", " ", "/", "y", "\n">>,
   BlankLine, <<"T", "\n", "=", "=", "=", "\n">>, <<"[", "a", "]", "\n">>}

\* the most pieces of such a source
MaxDefinitionPieces == 5

\* the sequences of at most MaxDefinitionPieces pieces
DefinitionSources == UNION {[1..n -> DefinitionPieces] : n \in 1..MaxDefinitionPieces}

\* a paragraph that is an inline link, closed by a blank line
LinkChunk == <<"[", "b", "]", "(", "/", "y", ")", "\n", "\n">>

\* the chunks given to two parsers of one module
InstanceChunks == {HeadingChunk, DefinitionChunk, LinkChunk, ListChunk}

\* the most calls the two parsers receive together
MaxInstanceCalls == 3

\* the pieces of the texts given to parseInline for links: an opening
\* bracket of a link and of an image, a closing bracket alone and followed
\* by a link target, an autolink, and a letter
LinkTokens ==
  {<<"[">>, <<"!", "[">>, <<"]">>, <<"]", "(", "a", "a", ")">>, <<"<", "a", "a", ":", ">">>, <<"a">>}

\* the most pieces of such a text
MaxLinkTokens == 5

\* the texts of at most MaxLinkTokens pieces
LinkInputs == {Flatten(tokens) : tokens \in UNION {[1..n -> LinkTokens] : n \in 1..MaxLinkTokens}}

\* the characters of the texts given to parseInline for emphasis
EmphasisAlphabet == {"*", "_", "a", " "}

\* the most characters of such a text
MaxEmphasisLength == 6

\* the texts of at most MaxEmphasisLength characters over EmphasisAlphabet
EmphasisInputs == UNION {[1..n -> EmphasisAlphabet] : n \in 1..MaxEmphasisLength}

\* the characters of the texts given to parseInline for line breaks
BreakAlphabet == {"a", " ", "\t", "\n", "\\"}

\* the most characters of such a text
MaxBreakLength == 5

\* the texts of at most MaxBreakLength characters over BreakAlphabet
BreakInputs == UNION {[1..n -> BreakAlphabet] : n \in 1..MaxBreakLength}

\* the characters of the texts given to parseInline for code spans
CodeAlphabet == {Backtick, "a", " "}

\* the most characters of such a text
MaxCodeLength == 7

\* the texts of at most MaxCodeLength characters over CodeAlphabet
CodeInputs == UNION {[1..n -> CodeAlphabet] : n \in 1..MaxCodeLength}

VARIABLES
  parser,    \* the MarkdownParser: splitter, tree, line and node index, store
  status,    \* "ready", or "diverged" once a call entered a loop it never leaves
  calls,     \* the parse calls made so far: input, stream flag, what each returned
  prev,      \* the parser as it was before the last call
  splitter,  \* a LineSplitter used on its own
  splits,    \* the split calls made on it so far: chunk, stream flag, returned lines
             \* and the splitter as the call left it
  inline,    \* one parseInline call: its input, its position, its node array, and
             \* what the last pass of its emphasis loop found the array as and matched
  other      \* a second MarkdownParser of the same module, and the number of
             \* calls made on it

vars == <<parser, status, calls, prev, splitter, splits, inline, other, asciiEncodeTableCache>>

\* no parseInline call made yet
InitInline ==
  [phase |-> "idle", input |-> <<>>, result |-> <<>>, closerIndex |-> 0,
   before |-> <<>>, closerBefore |-> 0, opener |-> -1]

Init ==
  /\ parser = InitParser
  /\ status = "ready"
  /\ calls = <<>>
  /\ prev = InitParser
  /\ splitter = InitSplitter
  /\ splits = <<>>
  /\ inline = InitInline
  /\ other = [parser |-> InitParser, numOfCalls |-> 0]
  /\ asciiEncodeTableCache = <<>>

\* one call parser.parse(input, {stream})
Call(input, stream) ==
  /\ status = "ready"
  /\ \E r \in {parse(parser, input, stream)} :
        IF r.diverged
        THEN /\ status' = "diverged"
             /\ calls' = Append(calls, [input |-> input, stream |-> stream, ids |-> <<>>,
                                        blocks |-> <<>>,
                                        referenceDefinitions |-> parser.referenceDefinitions])
             /\ UNCHANGED <<parser, prev, asciiEncodeTableCache>>
        ELSE /\ parser' = r.parser
             /\ asciiEncodeTableCache' = CacheAfter(BlocksEncoded(r.blocks))
             /\ prev' = parser
             /\ calls' = Append(calls, [input |-> input, stream |-> stream, ids |-> r.ids,
                                        blocks |-> r.blocks,
                                        referenceDefinitions |-> r.parser.referenceDefinitions])
             /\ UNCHANGED status
  /\ UNCHANGED <<splitter, splits, inline, other>>

\* any mix of streamed and non-stream calls on one parser
ParseStream == Len(calls) < MaxCalls /\ \E input \in StreamChunks : Call(input, TRUE)

ParseNonStream == Len(calls) < MaxCalls /\ \E input \in NonStreamChunks : Call(input, FALSE)

Next == ParseStream \/ ParseNonStream

Spec == Init /\ [][Next]_vars

\* the streaming protocol: chunks fed with stream:true, ended by one
\* parse("", {stream:false})
AllStreamed == \A k \in 1..Len(calls) : calls[k].stream

Feed == AllStreamed /\ Len(calls) < MaxFeeds /\ \E input \in StreamChunks : Call(input, TRUE)

Flush == AllStreamed /\ Call(EmptyChunk, FALSE)

FlushNext == Feed \/ Flush

FlushSpec == Init /\ [][FlushNext]_vars

\* lists built line by line: each call is parse(line, {stream:true}) with a
\* whole line of ListLines, ended by parse("", {stream:false})
ListFeed == AllStreamed /\ Len(calls) < MaxListLines /\ \E input \in ListLines : Call(input, TRUE)

ListNext == ListFeed \/ Flush

ListSpec == Init /\ [][ListNext]_vars

\* paragraphs built line by line, ended by parse("", {stream:false})
ParagraphFeed ==
  AllStreamed /\ Len(calls) < MaxParagraphLines /\ \E input \in ParagraphLines : Call(input, TRUE)

ParagraphNext == ParagraphFeed \/ Flush

ParagraphSpec == Init /\ [][ParagraphNext]_vars

\* tables built line by line, ended by parse("", {stream:false})
TableFeed == AllStreamed /\ Len(calls) < MaxTableLines /\ \E input \in TableLines : Call(input, TRUE)

TableNext == TableFeed \/ Flush

TableSpec == Init /\ [][TableNext]_vars

\* table starts tried line by line, ended by parse("", {stream:false})
TableStartFeed ==
  AllStreamed /\ Len(calls) < MaxTableStartLines /\ \E input \in TableStartLines : Call(input, TRUE)

TableStartNext == TableStartFeed \/ Flush

TableStartSpec == Init /\ [][TableStartNext]_vars

\* fenced code built chunk by chunk, ended by parse("", {stream:false})
FenceFeed == AllStreamed /\ Len(calls) < MaxFenceChunks /\ \E input \in FenceChunks : Call(input, TRUE)

FenceNext == FenceFeed \/ Flush

FenceSpec == Init /\ [][FenceNext]_vars

\* a tree of nested blocks built line by line, with parse("", {stream:false})
\* at any point: the parser is used on after it
TreeFeed == Len(calls) < MaxTreeLines /\ \E input \in TreeLines : Call(input, TRUE)

TreeEnd == Len(calls) < MaxTreeLines /\ Call(EmptyChunk, FALSE)

TreeNext == TreeFeed \/ TreeEnd

TreeSpec == Init /\ [][TreeNext]_vars

\* setext headings built line by line, ended by parse("", {stream:false})
SetextFeed == AllStreamed /\ Len(calls) < MaxSetextLines /\ \E input \in SetextLines : Call(input, TRUE)

SetextNext == SetextFeed \/ Flush

SetextSpec == Init /\ [][SetextNext]_vars

\* indented lines met line by line, ended by parse("", {stream:false})
IndentFeed == AllStreamed /\ Len(calls) < MaxIndentLines /\ \E input \in IndentLines : Call(input, TRUE)

IndentNext == IndentFeed \/ Flush

IndentSpec == Init /\ [][IndentNext]_vars

\* HTML blocks built line by line, ended by parse("", {stream:false})
HtmlFeed == AllStreamed /\ Len(calls) < MaxHtmlLines /\ \E input \in HtmlLines : Call(input, TRUE)

HtmlNext == HtmlFeed \/ Flush

HtmlSpec == Init /\ [][HtmlNext]_vars

\* list items without content built line by line, ended by
\* parse("", {stream:false})
ItemFeed == AllStreamed /\ Len(calls) < MaxItemLines /\ \E input \in ItemLines : Call(input, TRUE)

ItemNext == ItemFeed \/ Flush

ItemSpec == Init /\ [][ItemNext]_vars

\* headings built chunk by chunk, ended by parse("", {stream:false})
HeadingFeed ==
  AllStreamed /\ Len(calls) < MaxHeadingChunks /\ \E input \in HeadingChunks : Call(input, TRUE)

HeadingNext == HeadingFeed \/ Flush

HeadingSpec == Init /\ [][HeadingNext]_vars

\* one call splitter.split(chunk, {stream})
SplitCall(chunk, stream) ==
  /\ Len(splits) < MaxSplits
  /\ LET r == Split(splitter, chunk, stream)
     IN /\ splitter' = r.sp
        /\ splits' = Append(splits, [chunk |-> chunk, stream |-> stream, lines |-> r.lines,
                                      sp |-> r.sp])
  /\ UNCHANGED <<parser, status, calls, prev, inline, other, asciiEncodeTableCache>>

SplitStream == \E chunk \in SplitChunks : SplitCall(chunk, TRUE)

SplitNonStream == \E chunk \in SplitChunks : SplitCall(chunk, FALSE)

SplitNext == SplitStream \/ SplitNonStream

SplitSpec == Init /\ [][SplitNext]_vars

\* a LineSplitter given chunks of two letters
SplitLettersStream == \E chunk \in LetterChunks : SplitCall(chunk, TRUE)

SplitLettersNonStream == \E chunk \in LetterChunks : SplitCall(chunk, FALSE)

SplitLettersNext == SplitLettersStream \/ SplitLettersNonStream

SplitLettersSpec == Init /\ [][SplitLettersNext]_vars

\* parseInline(input) up to the end of its while loop: the node array with
\* the emphasis delimiters still in it
Tokenize(input) ==
  /\ inline.phase = "idle"
  /\ inline' = [InitInline EXCEPT !.phase = "emphasis", !.input = input,
                   !.result = InlineLoop(input, <<>>,
                                [nodes |-> <<>>, brackets |-> <<>>, characterCursor |-> 0])]
  /\ asciiEncodeTableCache' = CacheAfter(InlinesEncoded(inline'.result))
  /\ UNCHANGED <<parser, status, calls, prev, splitter, splits, other>>

TokenizeEmphasis == \E input \in EmphasisInputs : Tokenize(input)

\* one pass of the while loop of parseEmphasisDelimiterNodes
EmphasisStep ==
  /\ inline.phase = "emphasis"
  /\ inline.closerIndex < Len(inline.result)
  /\ \E st \in {EmphasisIteration([result |-> inline.result, closerIndex |-> inline.closerIndex])} :
       inline' = [inline EXCEPT
                    !.result = st.result, !.closerIndex = st.closerIndex,
                    !.before = inline.result, !.closerBefore = inline.closerIndex,
                    !.opener =
                      IF inline.result[inline.closerIndex + 1].type = "emphasis-delimiter"
                         /\ inline.result[inline.closerIndex + 1].canClose
                      THEN findMatchingOpenerForCloser(inline.result,
                             inline.result[inline.closerIndex + 1], inline.closerIndex)
                      ELSE -1]
  /\ UNCHANGED <<parser, status, calls, prev, splitter, splits, other, asciiEncodeTableCache>>

\* the end of the loop and the return of parseInline
EmphasisReturn ==
  /\ inline.phase = "emphasis"
  /\ inline.closerIndex >= Len(inline.result)
  /\ inline' = [inline EXCEPT !.phase = "returned",
                                !.result = mergeAdjacentTextNodes(DelimitersAsText(inline.result))]
  /\ UNCHANGED <<parser, status, calls, prev, splitter, splits, other, asciiEncodeTableCache>>

EmphasisNext == TokenizeEmphasis \/ EmphasisStep \/ EmphasisReturn

EmphasisSpec == Init /\ [][EmphasisNext]_vars

\* a whole source given to a new parser in one call parse(source)
ParseSource == Len(calls) = 0 /\ \E pieces \in DefinitionSources : Call(Flatten(pieces), FALSE)

SourceSpec == Init /\ [][ParseSource]_vars

\* one call other.parse(input, {stream}) on the second parser
OtherCall(input, stream) ==
  /\ status = "ready"
  /\ \E r \in {parse(other.parser, input, stream)} :
        IF r.diverged
        THEN /\ status' = "diverged"
             /\ UNCHANGED <<other, asciiEncodeTableCache>>
        ELSE /\ other' = [parser |-> r.parser, numOfCalls |-> other.numOfCalls + 1]
             /\ asciiEncodeTableCache' = CacheAfter(BlocksEncoded(r.blocks))
             /\ UNCHANGED status
  /\ UNCHANGED <<parser, calls, prev, splitter, splits, inline>>

InstanceCalls == Len(calls) + other.numOfCalls

\* two parsers of one module, called in any order
ParseOne ==
  /\ InstanceCalls < MaxInstanceCalls
  /\ \E input \in InstanceChunks : \E stream \in BOOLEAN : Call(input, stream)

ParseOther ==
  /\ InstanceCalls < MaxInstanceCalls
  /\ \E input \in InstanceChunks : \E stream \in BOOLEAN : OtherCall(input, stream)

InstanceNext == ParseOne \/ ParseOther

InstanceSpec == Init /\ [][InstanceNext]_vars

\* one call parseInline(input, {referenceDefinitions: new Map()})
ParseInline(input) ==
  /\ inline.phase = "idle"
  /\ inline' = [InitInline EXCEPT !.phase = "returned", !.input = input,
                                    !.result = parseInline(input, <<>>)]
  /\ asciiEncodeTableCache' = CacheAfter(InlinesEncoded(inline'.result))
  /\ UNCHANGED <<parser, status, calls, prev, splitter, splits, other>>

ParseInlineLinks == \E input \in LinkInputs : ParseInline(input)

LinkSpec == Init /\ [][ParseInlineLinks]_vars

ParseInlineBreaks == \E input \in BreakInputs : ParseInline(input)

BreakSpec == Init /\ [][ParseInlineBreaks]_vars

ParseInlineCode == \E input \in CodeInputs : ParseInline(input)

CodeSpec == Init /\ [][ParseInlineCode]_vars

\* ------------------------------------------------------------------------
\* Properties of MarkdownParser.parse (checked under Spec)
\* ------------------------------------------------------------------------

EndsWithCR(chunk) == Len(chunk) > 0 /\ chunk[Len(chunk)] = "\r"

StartsWithLF(chunk) == Len(chunk) > 0 /\ chunk[1] = "\n"

\* a chunk that ends in CR and a later chunk that starts with LF, with
\* nothing but empty chunks, and at least one, between them
CRLFSplitByEmpty(inputs) ==
  \E i, k \in 1..Len(inputs) :
    /\ i + 1 < k
    /\ EndsWithCR(inputs[i])
    /\ StartsWithLF(inputs[k])
    /\ \A j \in (i + 1)..(k - 1) : inputs[j] = <<>>

\* the nodes below id in the tree
RECURSIVE Descendants(_, _)
Descendants(nodes, id) ==
  UNION {{c} \cup Descendants(nodes, c) : c \in Range(nodes[id].children)}

\* every node between id and the root is closed
RECURSIVE AncestorsClosed(_, _)
AncestorsClosed(nodes, id) ==
  LET parent == nodes[id].parent
  IN \/ parent = RootId
     \/ parent # NoNode /\ nodes[parent].isClosed /\ AncestorsClosed(nodes, parent)

\* id is still a child of the node it was added to
Attached(nodes, id) == id \in Range(nodes[nodes[id].parent].children)

Paragraphs(nodes) == {id \in 1..Len(nodes) : nodes[id].type = "paragraph"}

RootChildren == parser.nodes[RootId].children

LastCall == calls[Len(calls)]

\* the last call returned
Returned == status = "ready" /\ Len(calls) > 0

Inputs == [k \in 1..Len(calls) |-> calls[k].input]

\* the returned lists of all calls, concatenated
ReturnedBlocks == Flatten([k \in 1..Len(calls) |-> calls[k].blocks])

\* the internal nodes the returned blocks were converted from
ReturnedIds == Flatten([k \in 1..Len(calls) |-> calls[k].ids])

\* for each returned block, the store at the end of the call that returned it
ReturnedStores ==
  Flatten([k \in 1..Len(calls) |->
             [i \in 1..Len(calls[k].ids) |-> calls[k].referenceDefinitions]])

\* every call but the last was stream:true, the last was parse("", {stream:false})
\* and returned
StreamedThenFlushed ==
  /\ Returned
  /\ ~LastCall.stream
  /\ LastCall.input = <<>>
  /\ \A k \in 1..(Len(calls) - 1) : calls[k].stream

\* a fresh parser's single non-stream parse of the concatenated inputs
Reference == parse(InitParser, Flatten(Inputs), FALSE)

\* C1 as stated: chunks fed with stream:true and then parse("", {stream:false})
\* return, concatenated over all calls, the block list of a fresh parser's
\* single non-stream parse of the concatenated chunks.
C1_StreamedEqualsSingleParse ==
  StreamedThenFlushed => (~Reference.diverged /\ ReturnedBlocks = Reference.blocks)

\* C1 amended: unless an empty chunk comes between a chunk ending in CR and a
\* chunk starting with LF, the streamed calls return the blocks of the single
\* parse, in the same order, each with its reference links resolved against
\* the store as it stood at the end of the call that returned it; so the two
\* block lists are equal whenever every one of those stores equals the store
\* of the single parse.
C1_StreamedEqualsSingleParseUpToReferences ==
  (StreamedThenFlushed /\ ~CRLFSplitByEmpty(Inputs)) =>
    LET ref == Reference
    IN /\ ~ref.diverged
       /\ ReturnedIds = ref.ids
       /\ \A j \in 1..Len(ReturnedIds) :
            ReturnedBlocks[j] =
              convertInternalBlockToPublicBlock(ref.parser.nodes, ReturnedStores[j], ref.ids[j])
       /\ (\A j \in 1..Len(ReturnedIds) : ReturnedStores[j] = ref.parser.referenceDefinitions)
            => ReturnedBlocks = ref.blocks

\* C1 witness: blocks returned by a streamed call and by the flush, where a
\* reference link of a streamed block is resolved by the single parse only
C1_Witness ==
  /\ StreamedThenFlushed
  /\ ~CRLFSplitByEmpty(Inputs)
  /\ \E k \in 1..(Len(calls) - 1) : Len(calls[k].blocks) > 0
  /\ Len(LastCall.blocks) > 0
  /\ ReturnedIds = Reference.ids
  /\ ReturnedBlocks # Reference.blocks

\* C2 as stated: every call of parse terminates and returns a block list.
C2_EveryCallReturns == status = "ready"

\* C3: no root block is in two returned lists, and at the end of every call
\* the returned blocks are exactly the root blocks up to the first one that
\* is still open, so a block is returned by the first call at whose end it is
\* closed and all root blocks before it have been returned.
C3_ReturnedExactlyOnce ==
  /\ \A i, j \in 1..Len(ReturnedIds) : i # j => ReturnedIds[i] # ReturnedIds[j]
  /\ Len(ReturnedIds) <= Len(RootChildren)
  /\ ReturnedIds = SubSeq(RootChildren, 1, Len(ReturnedIds))
  /\ Len(ReturnedIds) < Len(RootChildren)
       => ~parser.nodes[RootChildren[Len(ReturnedIds) + 1]].isClosed

\* C3 witness: two calls returned blocks and a later root block is held back
C3_Witness ==
  /\ \E k, m \in 1..Len(calls) : k < m /\ Len(calls[k].ids) > 0 /\ Len(calls[m].ids) > 0
  /\ Len(ReturnedIds) < Len(RootChildren)

\* C4: every block a call returns is, when the call returns, a closed child
\* of the root; a root block that is still open is in no returned list.
C4_ReturnedAreClosedRootChildren ==
  Returned =>
    /\ \A i \in 1..Len(LastCall.ids) :
         /\ LastCall.ids[i] \in Range(RootChildren)
         /\ parser.nodes[LastCall.ids[i]].parent = RootId
         /\ parser.nodes[LastCall.ids[i]].isClosed
    /\ \A id \in Range(RootChildren) :
         ~parser.nodes[id].isClosed => id \notin Range(ReturnedIds)

\* C4 witness: a streamed call returned a block while a later root block
\* stays open
C4_Witness ==
  /\ Returned
  /\ LastCall.stream
  /\ Len(LastCall.ids) > 0
  /\ \E id \in Range(RootChildren) :
       ~parser.nodes[id].isClosed /\ parser.nodes[id].type \in {"paragraph", "list", "blockquote"}

\* C5: the returned blocks, concatenated over the calls, are in source order:
\* they are the root's children in the order of the root, and a block
\* returned earlier ends on an earlier line than a block returned later ends
\* and, unless that one is a heading, starts.
C5_ReturnedInSourceOrder ==
  \A i, j \in 1..Len(ReturnedIds) :
    i < j =>
      LET a == parser.nodes[ReturnedIds[i]]
          b == parser.nodes[ReturnedIds[j]]
      IN /\ \E m, n \in 1..Len(RootChildren) :
              m < n /\ RootChildren[m] = ReturnedIds[i] /\ RootChildren[n] = ReturnedIds[j]
         /\ a.endLineIndex < b.endLineIndex
         /\ b.type # "heading" => a.endLineIndex < b.startLineIndex

\* C5 witness: one call returned two blocks and another call returned more
C5_Witness ==
  /\ \E k \in 1..Len(calls) : Len(calls[k].ids) > 1
  /\ \E k, m \in 1..Len(calls) : k < m /\ Len(calls[k].ids) > 0 /\ Len(calls[m].ids) > 0

\* C6: after streamed calls, parse("", {stream:false}) takes the buffered
\* partial line as a line, leaves no node of the tree open, and returns
\* exactly the root blocks no earlier call returned, in order, so that every
\* root block has been returned.
C6_FlushReturnsTheRest ==
  StreamedThenFlushed =>
    /\ parser.splitter.partialLine = <<>>
    /\ parser.nextLineIndex =
         prev.nextLineIndex + (IF Len(prev.splitter.partialLine) > 0 THEN 1 ELSE 0)
    /\ \A id \in Descendants(parser.nodes, RootId) : parser.nodes[id].isClosed
    /\ LastCall.ids = Slice(RootChildren, prev.nextNodeIndex, Len(RootChildren))
    /\ parser.nextNodeIndex = Len(RootChildren)
    /\ ReturnedIds = RootChildren

\* C6 witness: the flush found a buffered partial line and open blocks, and
\* returned blocks after an earlier call had returned some
C6_Witness ==
  /\ StreamedThenFlushed
  /\ Len(prev.splitter.partialLine) > 0
  /\ \E id \in Descendants(prev.nodes, RootId) : ~prev.nodes[id].isClosed
  /\ Len(LastCall.ids) > 0
  /\ \E k \in 1..(Len(calls) - 1) : Len(calls[k].ids) > 0

Labels(referenceDefinitions) ==
  {referenceDefinitions[i].label : i \in 1..Len(referenceDefinitions)}

\* C7: a block returned by an earlier call keeps its reference links as they
\* resolved against the store at the end of that call, literal text where
\* the label was not defined then, whatever definitions later calls
\* register; and no later call returns the block again.
C7_EarlierBlocksStayUnresolved ==
  \A k \in 1..Len(calls) :
    \A i \in 1..Len(calls[k].ids) :
      /\ calls[k].blocks[i] =
           convertInternalBlockToPublicBlock(parser.nodes, calls[k].referenceDefinitions,
                                             calls[k].ids[i])
      /\ (Labels(parser.referenceDefinitions) \cap Labels(calls[k].referenceDefinitions) = {})
           => calls[k].blocks[i] =
                convertInternalBlockToPublicBlock(parser.nodes, <<>>, calls[k].ids[i])
      /\ \A m \in (k + 1)..Len(calls) : calls[k].ids[i] \notin Range(calls[m].ids)

\* C7 witness: a streamed call returned a block with a reference link while
\* the store was empty, a later call registered its label, and the block
\* would hold a link if it were converted now
C7_Witness ==
  /\ status = "ready"
  /\ \E k \in 1..Len(calls) :
       /\ calls[k].stream
       /\ calls[k].referenceDefinitions = <<>>
       /\ k < Len(calls)
       /\ \E i \in 1..Len(calls[k].ids) :
            /\ calls[k].blocks[i] =
                 convertInternalBlockToPublicBlock(parser.nodes, <<>>, calls[k].ids[i])
            /\ calls[k].blocks[i] #
                 convertInternalBlockToPublicBlock(parser.nodes, parser.referenceDefinitions,
                                                   calls[k].ids[i])

\* the paragraphs the sweep has visited: closed, and below closed nodes only
SweptParagraphs ==
  {id \in Paragraphs(parser.nodes) :
     parser.nodes[id].isClosed /\ AncestorsClosed(parser.nodes, id)}

\* the paragraphs of the tree that are closed, whatever is above them
ClosedParagraphs ==
  {id \in Paragraphs(parser.nodes) :
     parser.nodes[id].isClosed /\ id \in Descendants(parser.nodes, RootId)}

\* the label of the definition the lines begin with is in the store, if
\* they begin with one
LeadingDefinitionRegistered(lines) ==
  LET definition == parseLinkReferenceDefinition(lines)
  IN definition.type = "definition"
       => HasReference(parser.referenceDefinitions, definition.label)

\* C8 as stated: when a call returns, every definition found in a block that
\* is closed is in the store, and the returned blocks were converted against
\* that store.
C8_DefinitionsOfClosedBlocksRegistered ==
  Returned =>
    /\ \A id \in ClosedParagraphs : LeadingDefinitionRegistered(parser.nodes[id].lines)
    /\ \A i \in 1..Len(LastCall.ids) :
         LastCall.blocks[i] =
           convertInternalBlockToPublicBlock(parser.nodes, parser.referenceDefinitions,
                                             LastCall.ids[i])

\* C8 amended: when a call returns, every definition found in a closed
\* paragraph that lies in a closed root block (below closed nodes only) is in
\* the store and taken out of the paragraph, and the returned blocks were
\* converted against that store; a closed paragraph inside a root block that
\* is still open keeps its definitions unregistered.
C8_DefinitionsOfClosedRootBlocksRegistered ==
  Returned =>
    /\ \A id \in SweptParagraphs :
         /\ LeadingDefinitionRegistered(parser.nodes[id].lines)
         /\ Attached(parser.nodes, id)
              => parseLinkReferenceDefinition(parser.nodes[id].lines) = Null
    /\ \A i \in 1..Len(LastCall.ids) :
         LastCall.blocks[i] =
           convertInternalBlockToPublicBlock(parser.nodes, parser.referenceDefinitions,
                                             LastCall.ids[i])

\* C8 witness: the call returned a block whose reference link resolves
\* against a definition that the same call took from a later paragraph
C8_Witness ==
  /\ Returned
  /\ \E i \in 1..Len(LastCall.ids) :
       /\ LastCall.blocks[i] #
            convertInternalBlockToPublicBlock(parser.nodes, prev.referenceDefinitions,
                                              LastCall.ids[i])
       /\ \E id \in SweptParagraphs :
            /\ id > LastCall.ids[i]
            /\ ~Attached(parser.nodes, id)
            /\ parseLinkReferenceDefinition(parser.nodes[id].lines).type = "definition"
            /\ ~HasReference(prev.referenceDefinitions,
                             parseLinkReferenceDefinition(parser.nodes[id].lines).label)

\* C9: a step changes no entry of the store and removes none: every entry
\* stays where it is, with its label, href and title, and no label is
\* entered twice.
C9_FirstWriterWins ==
  [][/\ Len(parser.referenceDefinitions) <= Len(parser.referenceDefinitions')
     /\ \A i \in 1..Len(parser.referenceDefinitions) :
          parser.referenceDefinitions'[i] = parser.referenceDefinitions[i]
     /\ \A i, j \in 1..Len(parser.referenceDefinitions') :
          i # j => parser.referenceDefinitions'[i].label # parser.referenceDefinitions'[j].label
    ]_vars

\* C9 witness: a paragraph taken out of the tree began with a definition
\* whose label the store maps to another href, the one registered first
C9_Witness ==
  \E id \in Paragraphs(parser.nodes) :
    /\ ~Attached(parser.nodes, id)
    /\ LET definition == parseLinkReferenceDefinition(parser.nodes[id].lines)
       IN /\ definition.type = "definition"
          /\ HasReference(parser.referenceDefinitions, definition.label)
          /\ GetReference(parser.referenceDefinitions, definition.label).href # definition.href

\* every call so far was stream:true and returned
AllStreamedReturned == Returned /\ AllStreamed

\* seq is the beginning of whole
IsPrefix(seq, whole) == Len(seq) <= Len(whole) /\ seq = SubSeq(whole, 1, Len(seq))

SplitInputs == [k \in 1..Len(splits) |-> splits[k].chunk]

EmittedLines == Flatten([k \in 1..Len(splits) |-> splits[k].lines])

\* every split call but the last was stream:true and the last was not
StreamedThenEnded ==
  /\ Len(splits) > 0
  /\ ~splits[Len(splits)].stream
  /\ \A k \in 1..(Len(splits) - 1) : splits[k].stream

\* the lines of one non-stream split of the concatenated chunks
SingleSplit == Split(InitSplitter, Flatten(SplitInputs), FALSE).lines

\* C10 as stated: for every sequence of chunks, empty chunks included, fed
\* with stream:true and ended by a non-stream call, the concatenated emitted
\* lines equal the lines of a single non-stream split of the concatenation.
C10_RechunkingInvariant ==
  StreamedThenEnded => EmittedLines = SingleSplit

\* C10 amended: the emitted lines equal those of the single split provided no
\* empty chunk comes between a chunk that ends in CR and a chunk that starts
\* with LF (an empty chunk clears the pending CR, so that LF ends one more,
\* empty, line).
C10_RechunkingInvariantExceptEmptyAfterCR ==
  (StreamedThenEnded /\ ~CRLFSplitByEmpty(SplitInputs)) => EmittedLines = SingleSplit

\* C10 witness: a CRLF cut between two chunks and an empty chunk elsewhere,
\* ended by a non-stream call that flushes a partial line
C10_Witness ==
  /\ StreamedThenEnded
  /\ ~CRLFSplitByEmpty(SplitInputs)
  /\ \E k \in 1..Len(splits) : splits[k].chunk = <<>>
  /\ \E k \in 1..(Len(splits) - 1) :
       EndsWithCR(splits[k].chunk) /\ StartsWithLF(splits[k + 1].chunk)
  /\ Len(splits[Len(splits)].lines) > 0
  /\ EmittedLines = SingleSplit

IsTerminator(c) == c = "\r" \/ c = "\n"

\* the line terminators of s: every CR, and every LF that no CR precedes
Terminators(s) ==
  Cardinality({i \in 1..Len(s) : s[i] = "\r" \/ (s[i] = "\n" /\ (i = 1 \/ s[i - 1] # "\r"))})

\* the text of s after its last CR or LF, all of s if it has none
TextAfterLastTerminator(s) ==
  LET ends == {i \in 1..Len(s) : IsTerminator(s[i])}
  IN IF ends = {} THEN s ELSE SubSeq(s, (CHOOSE i \in ends : \A j \in ends : j <= i) + 1, Len(s))

\* the text of s before its first CR or LF, all of s if it has none
TextBeforeFirstTerminator(s) ==
  LET ends == {i \in 1..Len(s) : IsTerminator(s[i])}
  IN IF ends = {} THEN s ELSE SubSeq(s, 1, (CHOOSE i \in ends : \A j \in ends : i <= j) - 1)

\* the splitter as call k found it
SplitterBefore(k) == IF k = 1 THEN InitSplitter ELSE splits[k - 1].sp

\* call k + 1 got a chunk that starts with LF right after call k got a chunk
\* that ends in CR
CRLFBoundary(k) ==
  /\ k + 1 <= Len(splits)
  /\ EndsWithCR(splits[k].chunk)
  /\ StartsWithLF(splits[k + 1].chunk)

\* C11: where a chunk ends in CR and the next chunk starts with LF, the call
\* that got the CR emitted a line for it and left nothing buffered, and the
\* call that got the LF emitted what it would have emitted for its chunk
\* without that LF: one line for each terminator after the LF, one more for a
\* non-empty tail when it is not streamed, and none for the LF itself.
C11_CRLFAcrossChunksIsOneTerminator ==
  \A k \in 1..Len(splits) :
    CRLFBoundary(k) =>
      LET rest == Tail(splits[k + 1].chunk)
          tail == TextAfterLastTerminator(rest)
      IN /\ Len(splits[k].lines) >= 1
         /\ splits[k].sp.partialLine = <<>>
         /\ Len(splits[k + 1].lines) =
              Terminators(rest) + (IF ~splits[k + 1].stream /\ Len(tail) > 0 THEN 1 ELSE 0)
         /\ Len(splits[k + 1].lines) > 0 =>
              splits[k + 1].lines[1] = TextBeforeFirstTerminator(rest)

\* C11 witness: two such boundaries in one sequence of chunks, the LF of the
\* first one followed by the CR of the second
C11_Witness ==
  /\ Len(splits) = 3
  /\ CRLFBoundary(1)
  /\ CRLFBoundary(2)
  /\ Len(splits[2].lines) = 1
  /\ Len(splits[3].lines) = 0

\* C12: the flag is set after a call exactly when the chunk of that call ends
\* in CR, whatever the flag was before; and when an empty chunk comes between
\* a chunk that ends in CR and a chunk that starts with LF, the call that
\* got the LF emitted an empty line for it, and a streamed one buffered the
\* text after its last terminator.
C12_PendingCRIsOneCallLookahead ==
  /\ splitter.hasPendingCR <=> (Len(splits) > 0 /\ EndsWithCR(splits[Len(splits)].chunk))
  /\ \A k \in 1..Len(splits) :
       (/\ k + 2 <= Len(splits)
        /\ EndsWithCR(splits[k].chunk)
        /\ splits[k + 1].chunk = <<>>
        /\ StartsWithLF(splits[k + 2].chunk)) =>
         /\ ~splits[k + 1].sp.hasPendingCR
         /\ splits[k + 1].lines = <<>>
         /\ Len(splits[k + 2].lines) >= 1
         /\ splits[k + 2].lines[1] = <<>>
         /\ Len(splits[k + 2].lines) =
              Terminators(splits[k + 2].chunk)
                + (IF ~splits[k + 2].stream
                      /\ Len(TextAfterLastTerminator(splits[k + 2].chunk)) > 0 THEN 1 ELSE 0)
         /\ splits[k + 2].stream =>
              splits[k + 2].sp.partialLine = TextAfterLastTerminator(splits[k + 2].chunk)

\* C12 witness: a chunk ending in CR, an empty chunk, then a streamed LF and
\* a letter: one empty line, and the letter buffered
C12_Witness ==
  /\ Len(splits) = 3
  /\ EndsWithCR(splits[1].chunk)
  /\ splits[2].chunk = <<>>
  /\ splits[3].chunk = <<"\n", "a">>
  /\ splits[3].stream
  /\ splits[3].lines = << <<>> >>
  /\ splitter.partialLine = <<"a">>

\* the chunk of call k as the loop of split scans it: without the leading LF
\* that a pending CR makes it skip
ScannedChunk(k) ==
  IF SplitterBefore(k).hasPendingCR /\ StartsWithLF(splits[k].chunk)
  THEN Tail(splits[k].chunk) ELSE splits[k].chunk

\* the text call k holds after the last terminator it scanned: the text of
\* the chunk after it, behind the buffer of the earlier calls if the chunk
\* has no terminator
UnterminatedText(k) ==
  (IF Terminators(ScannedChunk(k)) = 0 THEN SplitterBefore(k).partialLine ELSE <<>>)
    \o TextAfterLastTerminator(ScannedChunk(k))

\* C13: a streamed call emits one line for each terminator it scans and no
\* more, and buffers the text after the last one behind what was buffered; the
\* first line a call completes begins with the buffer it found; a non-stream
\* call emits a non-empty tail as one more, last, line and leaves the buffer
\* empty.
C13_PartialLineBufferedUntilCompleted ==
  \A k \in 1..Len(splits) :
    LET call == splits[k]
        scanned == ScannedChunk(k)
        tail == UnterminatedText(k)
    IN /\ Terminators(scanned) > 0 =>
            call.lines[1] = SplitterBefore(k).partialLine \o TextBeforeFirstTerminator(scanned)
       /\ call.stream =>
            /\ Len(call.lines) = Terminators(scanned)
            /\ call.sp.partialLine = tail
       /\ ~call.stream =>
            /\ call.sp.partialLine = <<>>
            /\ Len(call.lines) = Terminators(scanned) + (IF Len(tail) > 0 THEN 1 ELSE 0)
            /\ Len(tail) > 0 => call.lines[Len(call.lines)] = tail

\* C13 witness: a streamed call buffered a letter and emitted nothing, a
\* second streamed call completed the line with it and buffered another,
\* and a non-stream call emitted that one and left the buffer empty
C13_Witness ==
  /\ Len(splits) = 3
  /\ splits[1].stream /\ splits[1].lines = <<>> /\ splits[1].sp.partialLine = <<"a">>
  /\ splits[2].stream /\ splits[2].lines = << <<"a">> >> /\ splits[2].sp.partialLine = <<"a">>
  /\ ~splits[3].stream /\ splits[3].chunk = <<>> /\ splits[3].lines = << <<"a">> >>
  /\ splitter.partialLine = <<>>

\* ------------------------------------------------------------------------
\* Properties of lists (checked under ListSpec)
\* ------------------------------------------------------------------------

\* the lines of the input so far, as the splitter cuts them
InputLines == Split(InitSplitter, Flatten(Inputs), FALSE).lines

\* the line before the one node id starts on is a blank line
BlankLineBefore(id) ==
  /\ parser.nodes[id].startLineIndex >= 1
  /\ parser.nodes[id].startLineIndex <= Len(InputLines)
  /\ isLineEmpty(InputLines[parser.nodes[id].startLineIndex])

\* a blank line separates two consecutive nodes of children: the later of
\* the two starts right after a blank line
SeparatedByBlankLine(children) == \E i \in 2..Len(children) : BlankLineBefore(children[i])

\* the lists of the tree that are closed
ClosedLists ==
  {id \in Descendants(parser.nodes, RootId) :
     parser.nodes[id].type = "list" /\ parser.nodes[id].isClosed}

\* no blank line between two items of the list, nor between two blocks of
\* one of its items
NoBlankLineInList(list) ==
  /\ ~SeparatedByBlankLine(parser.nodes[list].children)
  /\ \A j \in 1..Len(parser.nodes[list].children) :
       ~SeparatedByBlankLine(parser.nodes[parser.nodes[list].children[j]].children)

\* C15 as stated: a closed list is tight if and only if no blank line
\* separates two consecutive items of it nor two consecutive blocks of one of
\* its items, and a returned list reports that flag.
C15_TightIffNoBlankLineBetween ==
  Returned =>
    /\ \A list \in ClosedLists : parser.nodes[list].isTight <=> NoBlankLineInList(list)
    /\ \A j \in 1..Len(ReturnedIds) :
         parser.nodes[ReturnedIds[j]].type = "list"
           => ReturnedBlocks[j].tight = parser.nodes[ReturnedIds[j]].isTight

\* ------------------------------------------------------------------------
\* Properties of paragraphs (checked under ParagraphSpec)
\* ------------------------------------------------------------------------

\* the lines the last call gave to parseLine
LastLines == Split(prev.splitter, LastCall.input, LastCall.stream).lines

\* the last call parsed one line: where the first loop of parseLine left it
LastMatched == ContinueLine(prev.nodes, RootId, LastLines[1], prev.nextLineIndex)

\* the last call parsed one line, and a list item that cannot interrupt a
\* paragraph is what is left of it in a container whose last child was an
\* open paragraph
ItemLineAfterParagraph ==
  /\ Returned
  /\ Len(LastLines) = 1
  /\ ~LastMatched.returned
  /\ OpenParagraphLastChild(LastMatched.nodes, LastMatched.lastMatchedNode) # NoNode
  /\ LET item == parseListItem(LastMatched.line)
     IN /\ item # Null
        /\ isLineEmpty(item.content) \/ (item.kind = "ordered" /\ item.value # 1)

\* the paragraph the last line found open
ParagraphBefore == OpenParagraphLastChild(LastMatched.nodes, LastMatched.lastMatchedNode)

\* the last call made no node, and the paragraph is open and has its line
\* as last line
LineJoinedParagraph ==
  /\ Len(parser.nodes) = Len(prev.nodes)
  /\ parser.nodes[ParagraphBefore].type = "paragraph"
  /\ ~parser.nodes[ParagraphBefore].isClosed
  /\ Attached(parser.nodes, ParagraphBefore)
  /\ parser.nodes[ParagraphBefore].lines =
       Append(prev.nodes[ParagraphBefore].lines, LastMatched.line)
  /\ parser.nodes[ParagraphBefore].endLineIndex = prev.nextLineIndex

\* s is one or more "-" between white space
OnlyDashes(s) == Len(Trim(s)) > 0 /\ \A i \in 1..Len(Trim(s)) : Trim(s)[i] = "-"

\* C16 as stated: a list item line with empty content, or ordered with a
\* number other than 1, that follows an open paragraph in the same container
\* is appended to the paragraph, which stays open, and no list node is made.
C16_ItemLineContinuesParagraph ==
  ItemLineAfterParagraph => LineJoinedParagraph

\* C16 amended: such a line makes no list node; it is appended to the
\* paragraph, which stays open, unless it is a line of dashes only, which is
\* taken before the list item is looked at: as the delimiter row of a table
\* whose header is the paragraph's last line, if that has one cell, and
\* otherwise as a setext underline, which turns the paragraph into a heading
\* of level 2 or, if the paragraph holds link reference definitions only,
\* joins it as a line.
C16_ItemLineContinuesParagraphUnlessDashes ==
  ItemLineAfterParagraph =>
    /\ \A id \in (Len(prev.nodes) + 1)..Len(parser.nodes) : parser.nodes[id].type # "list"
    /\ ~OnlyDashes(LastMatched.line) => LineJoinedParagraph
    /\ OnlyDashes(LastMatched.line) =>
         LET made == parser.nodes[Len(parser.nodes)]
             before == prev.nodes[ParagraphBefore].lines
             header == before[Len(before)]
         IN IF Len(parseTableRow(header)) = 1 /\ "|" \in Range(header)
            THEN /\ Len(parser.nodes) = Len(prev.nodes) + 1
                 /\ made.parent = LastMatched.lastMatchedNode
                 /\ made.type = "table" /\ made.head = parseTableRow(header)
            ELSE IF TakeDefinitions(before, prev.referenceDefinitions).lines = <<>>
            THEN /\ Len(parser.nodes) = Len(prev.nodes)
                 /\ ~parser.nodes[ParagraphBefore].isClosed
                 /\ parser.nodes[ParagraphBefore].lines = Append(before, LastMatched.line)
            ELSE /\ Len(parser.nodes) = Len(prev.nodes) + 1
                 /\ made.parent = LastMatched.lastMatchedNode
                 /\ made.type = "heading" /\ made.level = 2
                 /\ ~Attached(parser.nodes, ParagraphBefore)

\* C16 witness: an ordered item line that starts at 2 joined a root
\* paragraph that a bullet item line without content had joined before
C16_Witness ==
  /\ ItemLineAfterParagraph
  /\ LineJoinedParagraph
  /\ LastMatched.lastMatchedNode = RootId
  /\ parseListItem(LastMatched.line).kind = "ordered"
  /\ Len(parser.nodes[ParagraphBefore].lines) = 3
  /\ parseListItem(parser.nodes[ParagraphBefore].lines[2]) # Null
  /\ parseListItem(parser.nodes[ParagraphBefore].lines[2]).kind = "unordered"

\* ------------------------------------------------------------------------
\* Properties of tables (checked under TableSpec and TableStartSpec)
\* ------------------------------------------------------------------------

\* the table nodes ever made
Tables == {id \in 1..Len(parser.nodes) : parser.nodes[id].type = "table"}

\* the last call parsed one line
OneLineCall == Returned /\ Len(LastLines) = 1

\* the table the last line found open as last child of its container
TableBefore ==
  LET lastChild == LastChild(LastMatched.nodes, LastMatched.lastMatchedNode)
  IN IF lastChild # NoNode /\ prev.nodes[lastChild].type = "table" /\ ~prev.nodes[lastChild].isClosed
     THEN lastChild ELSE NoNode

\* cells cut or filled up with empty strings to n cells
PaddedOrTruncated(cells, n) == [i \in 1..n |-> IF i <= Len(cells) THEN cells[i] ELSE <<>>]

\* C17: every table has as many alignments as header cells, at least one,
\* and every body row has that many cells, in the tree and in the returned
\* table; a row appended by the last call is the cells of its line, filled up
\* with empty strings or cut to that number.
C17_RowsHaveHeaderCellCount ==
  /\ \A t \in Tables :
       /\ Len(parser.nodes[t].head) > 0
       /\ Len(parser.nodes[t].alignments) = Len(parser.nodes[t].head)
       /\ \A r \in 1..Len(parser.nodes[t].rows) :
            Len(parser.nodes[t].rows[r]) = Len(parser.nodes[t].head)
  /\ \A j \in 1..Len(ReturnedIds) :
       parser.nodes[ReturnedIds[j]].type = "table" =>
         /\ Len(ReturnedBlocks[j].head.cells) = Len(parser.nodes[ReturnedIds[j]].head)
         /\ Len(ReturnedBlocks[j].body.rows) = Len(parser.nodes[ReturnedIds[j]].rows)
         /\ \A r \in 1..Len(ReturnedBlocks[j].body.rows) :
              Len(ReturnedBlocks[j].body.rows[r].cells) = Len(ReturnedBlocks[j].head.cells)
  /\ (OneLineCall /\ TableBefore # NoNode) =>
       LET before == prev.nodes[TableBefore]
           after == parser.nodes[TableBefore]
       IN Len(after.rows) > Len(before.rows) =>
            after.rows = Append(before.rows,
                                PaddedOrTruncated(parseTableRow(LastMatched.line), Len(before.head)))

\* C17 witness: a returned table of two columns whose rows came from a line
\* of one cell and from a line of three cells
C17_Witness ==
  \E j \in 1..Len(ReturnedIds) :
    LET t == parser.nodes[ReturnedIds[j]]
    IN /\ t.type = "table"
       /\ Len(t.head) = 2
       /\ t.rows = << <<<<"a">>, <<>> >>, <<<<"c">>, <<"d">> >> >>

\* s holds nothing but pipes, colons, dashes and blanks, and a dash at least
IsDelimiterRow(s) ==
  /\ \A i \in 1..Len(s) : s[i] \in {"|", ":", "-", " ", "\t"}
  /\ \E i \in 1..Len(s) : s[i] = "-"

\* the cells of a delimiter row: the runs of characters between its pipes
\* that are not blank
DelimiterCellCount(s) ==
  LET cells == SplitAt(s, 0, SortedSeq({i \in 0..(Len(s) - 1) : CharAt(s, i) = "|"}))
  IN Cardinality({i \in 1..Len(cells) : Trim(cells[i]) # <<>>})

\* the last call parsed one line, a delimiter row, in a container whose last
\* child was an open paragraph
DelimiterRowAfterParagraph ==
  /\ OneLineCall
  /\ ~LastMatched.returned
  /\ ParagraphBefore # NoNode
  /\ IsDelimiterRow(LastMatched.line)

\* the last call made a table
MadeTable ==
  \E id \in (Len(prev.nodes) + 1)..Len(parser.nodes) : parser.nodes[id].type = "table"

\* C18: a delimiter row after an open paragraph makes a table only if the
\* paragraph's last line has as many cells as the row has delimiter cells,
\* and at least one; the table then has those cells as head and the
\* paragraph loses the line; otherwise no table is made and the paragraph
\* keeps all its lines.
C18_TableOnlyIfHeaderMatchesDelimiter ==
  DelimiterRowAfterParagraph =>
    LET before == prev.nodes[ParagraphBefore].lines
        header == before[Len(before)]
        matches == /\ Len(parseTableRow(header)) # 0
                   /\ Len(parseTableRow(header)) = DelimiterCellCount(LastMatched.line)
    IN /\ MadeTable => matches
       /\ MadeTable =>
            /\ parser.nodes[Len(parser.nodes)].head = parseTableRow(header)
            /\ parser.nodes[Len(parser.nodes)].parent = LastMatched.lastMatchedNode
            /\ parser.nodes[ParagraphBefore].lines = SubSeq(before, 1, Len(before) - 1)
       /\ ~matches =>
            /\ ~MadeTable
            /\ IsPrefix(before, parser.nodes[ParagraphBefore].lines)

\* C18 witness: a delimiter row of two cells made a table whose header is
\* an earlier delimiter row of two cells, which had made no table after a
\* header of one cell and is a line of the paragraph
C18_Witness ==
  /\ DelimiterRowAfterParagraph
  /\ MadeTable
  /\ Len(prev.nodes[ParagraphBefore].lines) = 2
  /\ IsDelimiterRow(Trim(prev.nodes[ParagraphBefore].lines[2]))
  /\ Len(parseTableRow(prev.nodes[ParagraphBefore].lines[1])) = 1
  /\ Attached(parser.nodes, ParagraphBefore)

\* C19: a table that a line finds open as last child of its container is
\* closed by the line, with its rows as they were, if the line is blank or
\* makes a node; a line that is not blank and makes no node is appended to it
\* as a row and leaves it open; and a closed table stays closed with the rows
\* it has.
C19_TableClosedByBlankLineOrBlock ==
  /\ (OneLineCall /\ TableBefore # NoNode) =>
       LET before == prev.nodes[TableBefore]
           after == parser.nodes[TableBefore]
       IN IF isLineEmpty(LastMatched.line) \/ Len(parser.nodes) > Len(prev.nodes)
          THEN after.isClosed /\ after.rows = before.rows
          ELSE ~after.isClosed /\ Len(after.rows) = Len(before.rows) + 1
  /\ \A t \in 1..Len(prev.nodes) :
       (prev.nodes[t].type = "table" /\ prev.nodes[t].isClosed) =>
         /\ parser.nodes[t].isClosed
         /\ parser.nodes[t].rows = prev.nodes[t].rows

\* C19 witness: a block quote line closed a table that had a row
C19_Witness ==
  /\ OneLineCall
  /\ TableBefore # NoNode
  /\ Len(prev.nodes[TableBefore].rows) = 1
  /\ parser.nodes[TableBefore].isClosed
  /\ parser.nodes[TableBefore].rows = prev.nodes[TableBefore].rows
  /\ parser.nodes[Len(parser.nodes)].type = "paragraph"
  /\ parser.nodes[parser.nodes[Len(parser.nodes)].parent].type = "blockquote"
  /\ parser.nodes[parser.nodes[Len(parser.nodes)].parent].parent = parser.nodes[TableBefore].parent

\* ------------------------------------------------------------------------
\* Properties of fenced code blocks (checked under FenceSpec)
\* ------------------------------------------------------------------------

\* the fenced code block that was the open last child of the root before the
\* last call
FenceBefore ==
  LET lastChild == LastChild(prev.nodes, RootId)
  IN IF lastChild # NoNode /\ prev.nodes[lastChild].type = "fenced-code-block"
        /\ ~prev.nodes[lastChild].isClosed
     THEN lastChild ELSE NoNode

\* line is at most three spaces, then n or more times the marker and no
\* other marker, then nothing but blanks
IsClosingFence(line, marker, n) ==
  \E i \in 0..3 : \E k \in n..Len(line) :
    /\ i + k <= Len(line)
    /\ \A j \in 1..i : line[j] = " "
    /\ \A j \in (i + 1)..(i + k) : line[j] = marker
    /\ \A j \in (i + k + 1)..Len(line) : line[j] \in {" ", "\t"}

\* the number of spaces line begins with
LeadingSpaces(line) ==
  Cardinality({i \in 1..Len(line) : \A j \in 1..i : line[j] = " "})

\* a line indented by spaces without the first width of them, or without
\* all of them if they are fewer
Unindented(line, width) == SubSeq(line, Min(width, LeadingSpaces(line)) + 1, Len(line))

\* the lines a call found a fenced code block with, and then the lines
\* the call parsed: each of them up to the first closing fence is appended
\* without the opener's indent; closed tells whether a closing fence came
RECURSIVE FenceAfterLines(_, _, _)
FenceAfterLines(fence, content, lines) ==
  IF Len(lines) = 0 THEN [lines |-> content, isClosed |-> FALSE]
  ELSE IF IsClosingFence(Head(lines), fence.marker, fence.numOfMarkers)
  THEN [lines |-> content, isClosed |-> TRUE]
  ELSE FenceAfterLines(fence, Append(content, Unindented(Head(lines), fence.indentLevel)),
                       Tail(lines))

\* C20: a streamed call that finds a fenced code block open in the root
\* appends to it, in order, each line it receives in full, without the
\* opener's indent, until one of them is a closing fence for its opener; the
\* block is closed and returned by the call exactly if one is, and is in no
\* returned list before; the returned code block holds the appended lines,
\* each ended by a line feed.
C20_FenceHeldUntilClosingFence ==
  (Returned /\ LastCall.stream /\ FenceBefore # NoNode) =>
    LET before == prev.nodes[FenceBefore]
        after == parser.nodes[FenceBefore]
        expected == FenceAfterLines(before, before.lines, LastLines)
    IN /\ FenceBefore \notin Range(Flatten([k \in 1..(Len(calls) - 1) |-> calls[k].ids]))
       /\ after.isClosed = expected.isClosed
       /\ FenceBefore \in Range(LastCall.ids) <=> expected.isClosed
       /\ after.lines = expected.lines
       /\ IsPrefix(before.lines, after.lines)
       /\ \A j \in 1..Len(LastCall.ids) :
            LastCall.ids[j] = FenceBefore =>
              /\ LastCall.blocks[j].type = "code-block"
              /\ LastCall.blocks[j].content =
                   Flatten([i \in 1..Len(after.lines) |-> after.lines[i] \o <<"\n">>])

\* C20 witness: a fence indented by two columns was opened, a line indented
\* by three was appended by a second call as a line indented by one, the
\* closing fence came in two chunks, and the call that got its line feed
\* returned the code block
C20_Witness ==
  /\ Len(calls) = 4
  /\ Returned /\ AllStreamed
  /\ FenceBefore # NoNode
  /\ prev.nodes[FenceBefore].indentLevel = 2
  /\ prev.nodes[FenceBefore].lines = << <<" ", "x">> >>
  /\ prev.splitter.partialLine = <<Backtick, Backtick>>
  /\ calls[3].ids = <<>>
  /\ LastCall.ids = <<FenceBefore>>
  /\ LastCall.blocks[1].content = <<" ", "x", "\n">>

\* ------------------------------------------------------------------------
\* Properties of emphasis resolution (checked under EmphasisSpec)
\* ------------------------------------------------------------------------

\* the last pass of the emphasis loop was on a delimiter that can close
CloserVisited ==
  /\ inline.phase = "emphasis"
  /\ inline.before # <<>>
  /\ inline.before[inline.closerBefore + 1].type = "emphasis-delimiter"
  /\ inline.before[inline.closerBefore + 1].canClose

\* the delimiter runs before the visited closer that have its marker and can open
CandidateOpeners ==
  {i \in 0..(inline.closerBefore - 1) :
     /\ inline.before[i + 1].type = "emphasis-delimiter"
     /\ inline.before[i + 1].marker = inline.before[inline.closerBefore + 1].marker
     /\ inline.before[i + 1].canOpen}

\* the sum of the two run lengths is a multiple of 3 and the lengths are not
\* both multiples of 3
LengthsForbidMatch(i) ==
  LET opener == inline.before[i + 1]
      closer == inline.before[inline.closerBefore + 1]
  IN /\ (opener.count + closer.count) % 3 = 0
     /\ ~(opener.count % 3 = 0 /\ closer.count % 3 = 0)

CanOpenAndClose(node) == node.canOpen /\ node.canClose

\* the nearest of the candidates S to the visited closer is the recorded
\* opener, and no opener is recorded if there is none
NearestIsMatched(S) ==
  IF S = {} THEN inline.opener = -1
  ELSE inline.opener \in S /\ \A i \in S : i <= inline.opener

\* C21 as stated: the closer is matched with the nearest candidate opener
\* that is not passed over, and a candidate is passed over exactly when
\* opener and closer can each both open and close and the lengths forbid
\* the match.
C21_SkippedOnlyIfBothCanOpenAndClose ==
  CloserVisited =>
    NearestIsMatched({i \in CandidateOpeners :
      ~(/\ CanOpenAndClose(inline.before[i + 1])
        /\ CanOpenAndClose(inline.before[inline.closerBefore + 1])
        /\ LengthsForbidMatch(i))})

\* C21 amended: the closer is matched with the nearest preceding delimiter
\* run of its marker that can open and is not passed over, and a candidate
\* is passed over exactly when at least one of opener and closer can both
\* open and close and the lengths forbid the match; the matched pair is
\* then replaced by one emphasis or strong node that holds what stood
\* between the two runs.
C21_SkippedIfEitherCanOpenAndClose ==
  CloserVisited =>
    /\ NearestIsMatched({i \in CandidateOpeners :
         ~(/\ \/ CanOpenAndClose(inline.before[i + 1])
              \/ CanOpenAndClose(inline.before[inline.closerBefore + 1])
           /\ LengthsForbidMatch(i))})
    /\ inline.opener # -1 =>
         /\ inline.closerIndex = inline.opener + 1
         /\ \E j \in {inline.opener + 1, inline.opener + 2} :
              /\ j <= Len(inline.result)
              /\ inline.result[j].type \in {"emphasis", "strong"}
              /\ Len(inline.result[j].children) = inline.closerBefore - inline.opener - 1

\* C21 witness: the closer is a run of one that can only close, the nearest
\* run that can open is a run of two that can also close and is passed
\* over, and the run of one before it, which can only open, is matched
C21_Witness ==
  /\ CloserVisited
  /\ inline.input = <<"*", "a", "*", "*", "a", "*">>
  /\ inline.closerBefore = 4
  /\ ~inline.before[5].canOpen
  /\ CanOpenAndClose(inline.before[3])
  /\ ~inline.before[1].canClose
  /\ inline.opener = 0
  /\ inline.result[1].type = "emphasis"
  /\ Len(inline.result[1].children) = 3

\* ------------------------------------------------------------------------
\* Properties of links (checked under LinkSpec)
\* ------------------------------------------------------------------------

HasChildren(node) == node.type \in {"link", "image", "emphasis", "strong"}

\* some node of the array, or some descendant of one, is a link
RECURSIVE HoldsLink(_)
HoldsLink(nodes) ==
  \E i \in 1..Len(nodes) :
    \/ nodes[i].type = "link"
    \/ HasChildren(nodes[i]) /\ HoldsLink(nodes[i].children)

\* no link of the array, at any depth, has a link among its descendants
RECURSIVE LinksNotNested(_)
LinksNotNested(nodes) ==
  \A i \in 1..Len(nodes) :
    HasChildren(nodes[i]) =>
      /\ nodes[i].type = "link" => ~HoldsLink(nodes[i].children)
      /\ LinksNotNested(nodes[i].children)

\* C22: no link node of what parseInline returns contains another link node
\* among its descendants.
C22_NoLinkInsideLink ==
  inline.phase = "returned" => LinksNotNested(inline.result)

\* ------------------------------------------------------------------------
\* Properties of parsers of one module (checked under InstanceSpec)
\* ------------------------------------------------------------------------

\* the parser that the first k calls recorded in calls leave when they are
\* made on a new MarkdownParser one after the other
RECURSIVE ReplayedParser(_)
ReplayedParser(k) ==
  IF k = 0 THEN InitParser
  ELSE parse(ReplayedParser(k - 1), calls[k].input, calls[k].stream).parser

\* what a table of the cache must hold for a character, told from its key
\* alone: the character itself if it is a letter, a digit or one of the
\* allowed characters of the key, and nothing but "%" and two more
\* characters if not
TableEntryFromKey(allowedChars, table, c) ==
  IF c \in Alphanumerics \/ \E i \in 1..Len(allowedChars) : allowedChars[i] = c
  THEN table[c] = <<c>>
  ELSE Len(table[c]) = 3 /\ table[c][1] = "%"

\* C23: the lists returned by the calls made on one parser are those the
\* same calls return on a new parser, whatever calls were made on the other
\* parser in between, and the one object of the module that the calls write
\* to, the cache of encode tables, holds for each key a table that depends
\* on the key only.
C23_InstancesAreIndependent ==
  status = "ready" =>
    /\ \A k \in 1..Len(calls) :
         LET alone == parse(ReplayedParser(k - 1), calls[k].input, calls[k].stream)
         IN /\ ~alone.diverged
            /\ alone.blocks = calls[k].blocks
            /\ alone.ids = calls[k].ids
    /\ parser = ReplayedParser(Len(calls))
    /\ \A allowedChars \in DOMAIN asciiEncodeTableCache :
         /\ allowedChars = DEFAULT_ALLOWED_CHARS
         /\ \A c \in AsciiCharacters :
              TableEntryFromKey(allowedChars, asciiEncodeTableCache[allowedChars], c)

\* C23 witness: the first parser returned a paragraph that is a link to /y;
\* the second parser got two calls, holds a definition and has returned a
\* block; the cache holds the one table both have encoded through
C23_Witness ==
  /\ status = "ready"
  /\ Len(calls) = 1
  /\ calls[1].input = LinkChunk
  /\ Len(calls[1].blocks) = 1
  /\ calls[1].blocks[1].children[1].type = "link"
  /\ calls[1].blocks[1].children[1].href = <<"/", "y">>
  /\ other.numOfCalls = 2
  /\ other.parser.referenceDefinitions # <<>>
  /\ other.parser.nextNodeIndex >= 1
  /\ DEFAULT_ALLOWED_CHARS \in DOMAIN asciiEncodeTableCache

\* ------------------------------------------------------------------------
\* Properties of definitions of one label (checked under SourceSpec)
\* ------------------------------------------------------------------------

\* the pieces the source of the call was put together from
SourcePieces ==
  CHOOSE pieces \in DefinitionSources : Flatten(pieces) = calls[1].input

IsDefinitionPiece(piece) == Len(piece) > 3 /\ SubSeq(piece, 3, 4) = <<"]", ":">>

\* piece i of the source is a definition where a paragraph begins: at the
\* start, after a blank line, after a heading, or after such a definition
RECURSIVE DefinesLabel(_, _)
DefinesLabel(pieces, i) ==
  /\ IsDefinitionPiece(pieces[i])
  /\ \/ i = 1
     \/ pieces[i - 1] = BlankLine
     \/ pieces[i - 1][1] = "T"
     \/ DefinesLabel(pieces, i - 1)

\* the destination the definition piece gives
DestinationOf(piece) == SubSeq(piece, 6, 7)

\* the hrefs of the links of an array of inline nodes
LinkDestinations(inlines) ==
  {inlines[i].href : i \in {j \in 1..Len(inlines) : inlines[j].type = "link"}}

\* C24: when one source defines a label more than once, the definition that
\* comes first in the source is the one stored, and every reference to the
\* label in a returned heading or paragraph resolves to it.
C24_FirstDefinitionInSourceWins ==
  (Len(calls) = 1 /\ status = "ready") =>
    LET pieces == SourcePieces
        defining == {i \in 1..Len(pieces) : DefinesLabel(pieces, i)}
        first == CHOOSE i \in defining : \A j \in defining : i <= j
    IN defining # {} =>
         /\ Len(parser.referenceDefinitions) = 1
         /\ parser.referenceDefinitions[1].href = DestinationOf(pieces[first])
         /\ \A k \in 1..Len(calls[1].blocks) :
              LinkDestinations(calls[1].blocks[k].children)
                \subseteq {DestinationOf(pieces[first])}

\* ------------------------------------------------------------------------
\* Properties of the block tree
\* ------------------------------------------------------------------------

\* the nodes of the tree: what the root reaches through children arrays
TreeNodes(nodes) == Descendants(nodes, RootId)

OpenNodes(nodes) == {id \in TreeNodes(nodes) : ~nodes[id].isClosed}

\* id is the last child of its parent, and the parent is the root or open
OnRightmostPath(nodes, id) ==
  LET parent == nodes[id].parent
  IN /\ LastChild(nodes, parent) = id
     /\ parent = RootId \/ ~nodes[parent].isClosed

\* the nodes the last call added to the tree
AddedNodes == {id \in TreeNodes(parser.nodes) : id > Len(prev.nodes)}

\* the nodes the last call added as children of a node that was there before
AddedToOldContainer == {id \in AddedNodes : parser.nodes[id].parent <= Len(prev.nodes)}

\* the nodes below container that the tree held before the last call
OldNodesBelow(container) ==
  {d \in Descendants(parser.nodes, container) : d <= Len(prev.nodes)}

\* C25: after every processed line every open node of the tree is the last
\* child of its parent and its parent is the root or open, no closed node
\* has an open descendant, and when the line added a child to a container
\* every node that was below the container before is closed.
C25_OpenNodesOnRightmostPath ==
  Returned =>
    /\ \A id \in OpenNodes(parser.nodes) : OnRightmostPath(parser.nodes, id)
    /\ \A c \in TreeNodes(parser.nodes) :
          parser.nodes[c].isClosed =>
            \A d \in Descendants(parser.nodes, c) : parser.nodes[d].isClosed
    /\ \A id \in AddedToOldContainer :
          \A d \in OldNodesBelow(parser.nodes[id].parent) : parser.nodes[d].isClosed

\* a line added a child to the root while a paragraph was open three
\* containers below the root, and the new child is open
C25_Witness ==
  /\ Returned
  /\ \E id \in AddedToOldContainer :
        /\ parser.nodes[id].parent = RootId
        /\ ~parser.nodes[id].isClosed
        /\ \E d \in OldNodesBelow(RootId) :
              /\ prev.nodes[d].type = "paragraph"
              /\ ~prev.nodes[d].isClosed
              /\ prev.nodes[prev.nodes[d].parent].type = "list-item"
              /\ prev.nodes[prev.nodes[prev.nodes[prev.nodes[d].parent].parent].parent].type = "blockquote"

\* the nodes of the tree that were closed before the last call
ClosedBefore == {id \in TreeNodes(prev.nodes) : prev.nodes[id].isClosed}

\* seq is what is left of whole after some of its first elements were taken
IsSuffix(seq, whole) ==
  Len(seq) <= Len(whole) /\ seq = SubSeq(whole, Len(whole) - Len(seq) + 1, Len(whole))

\* C26: a node that was closed before a call is closed after it; if it is a
\* leaf its lines are the lines it had, or what the definition sweep left of
\* them, and its rows are the rows it had; if it is a container it has no
\* child it did not have before.
C26_ClosedNodesStayClosed ==
  Returned =>
    \A id \in ClosedBefore :
      /\ parser.nodes[id].isClosed
      /\ IsSuffix(parser.nodes[id].lines, prev.nodes[id].lines)
      /\ parser.nodes[id].rows = prev.nodes[id].rows
      /\ Range(parser.nodes[id].children) \subseteq Range(prev.nodes[id].children)

\* a list that parse("", {stream:false}) closed as last child of the root
\* is followed by a call with an item of its marker: the tree has a second
\* list; the second call was a line of text and a closed paragraph lies
\* inside a container
C26_Witness ==
  /\ Returned
  /\ Len(calls) = 4
  /\ calls[4].input = ListChunk
  /\ calls[2].input = TextLine
  /\ \E id \in ClosedBefore :
        /\ prev.nodes[id].type = "list"
        /\ LastChild(prev.nodes, RootId) = id
        /\ LastChild(parser.nodes, RootId) > Len(prev.nodes)
        /\ parser.nodes[LastChild(parser.nodes, RootId)].type = "list"
  /\ \E id \in ClosedBefore :
        prev.nodes[id].type = "paragraph" /\ prev.nodes[id].parent # RootId

\* the internal nodes of the blocks returned before the last call
ReturnedBefore == Flatten([k \in 1..(Len(calls) - 1) |-> calls[k].ids])

\* the first n children of the root
FirstRootChildren(nodes, n) == SubSeq(nodes[RootId].children, 1, n)

\* the last call left node id as it was
NodeUnchanged(id) ==
  /\ parser.nodes[id].lines = prev.nodes[id].lines
  /\ parser.nodes[id].rows = prev.nodes[id].rows
  /\ parser.nodes[id].children = prev.nodes[id].children
  /\ parser.nodes[id].isTight = prev.nodes[id].isTight
  /\ parser.nodes[id].isClosed = prev.nodes[id].isClosed

\* C27: a call leaves the node of every block returned by an earlier call,
\* and every node below it, unchanged, and the root children before the
\* index the call started from are after the call the returned blocks, in
\* the order they had: the sweep removed none and shifted none.
C27_ReturnedBlocksUnchanged ==
  Returned =>
    /\ \A id \in Range(ReturnedBefore) :
          \A d \in {id} \cup Descendants(prev.nodes, id) : NodeUnchanged(d)
    /\ FirstRootChildren(parser.nodes, prev.nextNodeIndex) = ReturnedBefore
    /\ parser.nextNodeIndex = prev.nextNodeIndex + Len(LastCall.ids)

\* a heading was returned by an earlier call, and the sweep of the last
\* call took the paragraph that followed it out of the root and wrote its
\* definition to the store
C27_Witness ==
  /\ Returned
  /\ \E id \in Range(ReturnedBefore) : prev.nodes[id].type = "heading"
  /\ \E id \in Range(prev.nodes[RootId].children) :
        /\ prev.nodes[id].type = "paragraph"
        /\ id \notin Range(parser.nodes[RootId].children)
  /\ Len(parser.referenceDefinitions) > Len(prev.referenceDefinitions)

NumOfRootChildren(nodes) == Len(nodes[RootId].children)

\* the open paragraph that was the last root child before the last call and
\* is no root child after it, or NoNode
PoppedParagraph ==
  LET lastChild == OpenParagraphLastChild(prev.nodes, RootId)
  IN IF lastChild # NoNode /\ lastChild \notin Range(parser.nodes[RootId].children)
     THEN lastChild ELSE NoNode

\* C28: when a call returns, nextNodeIndex is the number of root children,
\* or one less and the last root child is open; it is not below what it was
\* before the call and not above the number of root children.
C28_AtMostTheOpenLastChildNotReturned ==
  Returned =>
    /\ \/ parser.nextNodeIndex = NumOfRootChildren(parser.nodes)
       \/ /\ parser.nextNodeIndex = NumOfRootChildren(parser.nodes) - 1
          /\ ~parser.nodes[LastChild(parser.nodes, RootId)].isClosed
    /\ parser.nextNodeIndex >= prev.nextNodeIndex
    /\ parser.nextNodeIndex <= NumOfRootChildren(parser.nodes)
    /\ Len(ReturnedIds) = parser.nextNodeIndex

\* after a block was returned, a delimiter row popped the open paragraph
\* from the root and put an open table in its place
C28_Witness ==
  /\ Returned
  /\ prev.nextNodeIndex > 0
  /\ PoppedParagraph # NoNode
  /\ parser.nodes[LastChild(parser.nodes, RootId)].type = "table"
  /\ parser.nextNodeIndex = prev.nextNodeIndex
  /\ NumOfRootChildren(parser.nodes) = NumOfRootChildren(prev.nodes)

\* C29: between calls the tree holds no block that a call has returned: no
\* node reachable from the root is the node of a returned block.
C29_ReturnedBlocksNotRetained ==
  Returned => TreeNodes(parser.nodes) \cap Range(ReturnedIds) = {}

\* the last call was one blank line: spaces and tabs only, then a line feed
BlankLineCall ==
  /\ Len(LastCall.input) > 0
  /\ LastCall.input[Len(LastCall.input)] = "\n"
  /\ \A i \in 1..(Len(LastCall.input) - 1) : isSpaceOrTab(LastCall.input[i])

\* C30: a call that processes one blank line, whatever its width, adds no
\* node to the tree.
C30_BlankLineAddsNoNode ==
  (Returned /\ BlankLineCall) => TreeNodes(parser.nodes) \subseteq TreeNodes(prev.nodes)

\* ------------------------------------------------------------------------
\* Properties of setext headings
\* ------------------------------------------------------------------------

\* s is a run of "=" or a run of "-" between white space, indented by at
\* most three columns
IsUnderline(s) ==
  /\ LeadingSpaces(s) <= 3
  /\ Len(Trim(s)) > 0
  /\ \/ \A i \in 1..Len(Trim(s)) : Trim(s)[i] = "="
     \/ \A i \in 1..Len(Trim(s)) : Trim(s)[i] = "-"

\* the only link reference definition among the lines of SetextLines
IsDefinitionLine(line) == line = <<"[", "a", "]", ":", " ", "/", "x">>

\* the lines without the definitions they start with
RECURSIVE WithoutLeadingDefinitions(_)
WithoutLeadingDefinitions(lines) ==
  IF Len(lines) > 0 /\ IsDefinitionLine(Head(lines))
  THEN WithoutLeadingDefinitions(Tail(lines))
  ELSE lines

\* the last call parsed one line, and an underline is what is left of it in
\* a container whose last child was an open paragraph
UnderlineAfterParagraph ==
  /\ Returned
  /\ Len(LastLines) = 1
  /\ ~LastMatched.returned
  /\ ParagraphBefore # NoNode
  /\ IsUnderline(LastMatched.line)

\* the children of the container the last line was matched into
ContainerChildren(nodes) == nodes[LastMatched.lastMatchedNode].children

\* what the claim says of the step that processed the underline
HeadingOfRemainingLines ==
  LET before == prev.nodes[ParagraphBefore].lines
      rest == WithoutLeadingDefinitions(before)
      children == ContainerChildren(parser.nodes)
      heading == children[Len(children)]
  IN /\ Len(rest) < Len(before) =>
          HasReference(parser.referenceDefinitions, normalizeReference(<<"a">>))
     /\ IF Len(rest) > 0
        THEN /\ Len(children) = Len(ContainerChildren(prev.nodes))
             /\ SubSeq(children, 1, Len(children) - 1) =
                  SubSeq(ContainerChildren(prev.nodes), 1, Len(children) - 1)
             /\ heading > Len(prev.nodes)
             /\ parser.nodes[heading].type = "heading"
             /\ parser.nodes[heading].isClosed
             /\ parser.nodes[heading].level = (IF Trim(LastMatched.line)[1] = "=" THEN 1 ELSE 2)
             /\ parser.nodes[heading].content = Trim(JoinLines(rest))
        ELSE /\ Len(parser.nodes) = Len(prev.nodes)
             /\ children = ContainerChildren(prev.nodes)
             /\ ~parser.nodes[ParagraphBefore].isClosed
             /\ parser.nodes[ParagraphBefore].lines = Append(before, LastMatched.line)

\* the last line of the paragraph is a table header and the underline a
\* delimiter row with as many cells
UnderlineStartsTable ==
  LET before == prev.nodes[ParagraphBefore].lines
  IN parseTableStartLine(before[Len(before)], LastMatched.line) # Null

\* C31 as stated: an underline after an open paragraph that is the last
\* child of its container registers the definitions the paragraph starts
\* with; if lines remain, a closed heading of level 1 for "=" and 2 for "-"
\* whose content is the remaining lines joined and trimmed stands where the
\* paragraph stood; if none remain, the underline is the new last line of
\* the paragraph, which stays open.
C31_UnderlineMakesHeadingOfRemainingLines ==
  UnderlineAfterParagraph => HeadingOfRemainingLines

\* C31 amended: the same, unless the last line of the paragraph and the
\* underline are the header and the delimiter row of a table start, which
\* is tried first: then a table is made and no heading.
C31_UnderlineMakesHeadingUnlessTableStart ==
  UnderlineAfterParagraph =>
    IF UnderlineStartsTable
    THEN parser.nodes[LastChild(parser.nodes, LastMatched.lastMatchedNode)].type = "table"
    ELSE HeadingOfRemainingLines

\* an underline of "=" follows a paragraph of a definition and a line of
\* text: the root holds a heading of level 1 with content "a" and no
\* paragraph
C31_Witness ==
  /\ UnderlineAfterParagraph
  /\ ~UnderlineStartsTable
  /\ Len(parser.nodes[RootId].children) = 1
  /\ Len(prev.nodes[ParagraphBefore].lines) = 2
  /\ IsDefinitionLine(prev.nodes[ParagraphBefore].lines[1])
  /\ parser.nodes[LastChild(parser.nodes, LastMatched.lastMatchedNode)].type = "heading"
  /\ parser.nodes[LastChild(parser.nodes, LastMatched.lastMatchedNode)].level = 1
  /\ parser.nodes[LastChild(parser.nodes, LastMatched.lastMatchedNode)].content = <<"a">>

\* ------------------------------------------------------------------------
\* Properties of indented lines
\* ------------------------------------------------------------------------

\* the open node of the tree that has no open child, or NoNode
DeepestOpenNode(nodes) ==
  IF OpenNodes(nodes) = {} THEN NoNode
  ELSE CHOOSE id \in OpenNodes(nodes) :
         \A c \in Range(nodes[id].children) : nodes[c].isClosed

\* the deepest open node of the tree before the last call, if a paragraph
DeepestParagraphBefore ==
  LET deepest == DeepestOpenNode(prev.nodes)
  IN IF deepest # NoNode /\ prev.nodes[deepest].type = "paragraph" THEN deepest ELSE NoNode

\* the last call parsed one line while the deepest open node was a
\* paragraph, and what is left of the line after the containers it
\* continues is indented by four or more columns
IndentedLineOnParagraph ==
  /\ Returned
  /\ Len(LastLines) = 1
  /\ DeepestParagraphBefore # NoNode
  /\ getLeadingNonspaceColumn(LastMatched.line) >= 4

\* C32: a line indented by four or more columns that arrives while the
\* deepest open node is a paragraph makes no node, so no indented code
\* block; unless it is blank it is the new last line of that paragraph,
\* which stays open where it is, whether or not the line continued the
\* containers around the paragraph.
C32_IndentedLineContinuesParagraph ==
  IndentedLineOnParagraph =>
    /\ Len(parser.nodes) = Len(prev.nodes)
    /\ ~isLineEmpty(LastMatched.line) =>
         /\ ~parser.nodes[DeepestParagraphBefore].isClosed
         /\ Attached(parser.nodes, DeepestParagraphBefore)
         /\ DeepestOpenNode(parser.nodes) = DeepestParagraphBefore
         /\ parser.nodes[DeepestParagraphBefore].lines =
              Append(prev.nodes[DeepestParagraphBefore].lines, LastMatched.line)

\* a text line indented by four columns arrives while a paragraph is open
\* inside a container, does not continue the container, and is the new last
\* line of the paragraph
C32_Witness ==
  /\ IndentedLineOnParagraph
  /\ LastMatched.lastMatchedNode = RootId
  /\ ~isLineEmpty(LastMatched.line)
  /\ prev.nodes[DeepestParagraphBefore].parent # RootId
  /\ parser.nodes[DeepestParagraphBefore].lines[Len(parser.nodes[DeepestParagraphBefore].lines)]
       = <<" ", " ", " ", " ", "c">>

\* ------------------------------------------------------------------------
\* Properties of the end-of-call sweep
\* ------------------------------------------------------------------------

\* the parser's tree and store when the last call had processed its lines
\* and closed the rightmost path, before its sweep
BeforeSweep ==
  LET parsed == ParseLines(prev.nodes, prev.referenceDefinitions, LastLines, prev.nextLineIndex)
  IN [nodes |-> Finalize(parsed.nodes, LastCall.stream),
      referenceDefinitions |-> parsed.referenceDefinitions]

\* id is open or lies inside an open container
OpenOrInsideOpen(nodes, id) == ~nodes[id].isClosed \/ ~AncestorsClosed(nodes, id)

\* the labels of the definitions the lines start with
LeadingLabels(lines) == Labels(TakeDefinitions(lines, <<>>).referenceDefinitions)

\* the closed paragraphs whose containers are all closed
SweepableParagraphs(nodes) ==
  {id \in TreeNodes(nodes) :
     nodes[id].type = "paragraph" /\ nodes[id].isClosed /\ AncestorsClosed(nodes, id)}

\* C33: the sweep of a call leaves every node that is open or inside an
\* open container as the lines of the call left it, in the tree with the
\* lines and children it had, and every label the sweep adds to the store
\* is defined at the start of a closed paragraph whose containers are all
\* closed.
C33_SweepSkipsOpenBlocks ==
  Returned =>
    LET before == BeforeSweep
    IN /\ \A id \in TreeNodes(before.nodes) :
            OpenOrInsideOpen(before.nodes, id) =>
              /\ id \in TreeNodes(parser.nodes)
              /\ parser.nodes[id].lines = before.nodes[id].lines
              /\ parser.nodes[id].children = before.nodes[id].children
       /\ Labels(parser.referenceDefinitions) \ Labels(before.referenceDefinitions) \subseteq
            UNION {LeadingLabels(before.nodes[id].lines) : id \in SweepableParagraphs(before.nodes)}

\* when the call returns, a closed paragraph inside an open block quote
\* still starts with its definition, whose label is not in the store
C33_Witness ==
  /\ Returned
  /\ \E id \in TreeNodes(parser.nodes) :
        /\ parser.nodes[id].type = "paragraph"
        /\ parser.nodes[id].isClosed
        /\ ~AncestorsClosed(parser.nodes, id)
        /\ LeadingLabels(parser.nodes[id].lines) # {}
        /\ LeadingLabels(parser.nodes[id].lines) \cap Labels(parser.referenceDefinitions) = {}

\* ------------------------------------------------------------------------
\* Properties of HTML blocks (checked under HtmlSpec)
\* ------------------------------------------------------------------------

\* the texts that end an HTML block of each kind, in lower case
EndTexts(endPattern) ==
  CASE endPattern = "rawtext" ->
         {<<"<", "/", "s", "c", "r", "i", "p", "t", ">">>, <<"<", "/", "p", "r", "e", ">">>,
          <<"<", "/", "t", "e", "x", "t", "a", "r", "e", "a", ">">>,
          <<"<", "/", "s", "t", "y", "l", "e", ">">>}
    [] endPattern = "comment" -> {<<"-", "-", ">">>}
    [] endPattern = "processing" -> {<<"?", ">">>}
    [] endPattern = "declaration" -> {<<">">>}
    [] endPattern = "cdata" -> {<<"]", "]", ">">>}
    [] OTHER -> {}

\* the line, without the white space around it, holds a text that ends a
\* block of the kind; only the names of raw-text tags are compared
\* without case
HoldsEndText(endPattern, line) ==
  LET trimmed == Trim(line)
      same(a, b) == IF endPattern = "rawtext" THEN FoldCase(a) = FoldCase(b) ELSE a = b
  IN \E text \in EndTexts(endPattern) :
       \E k \in 0..(Len(trimmed) - Len(text)) :
         \A i \in 1..Len(text) : same(trimmed[k + i], text[i])

\* the open HTML block the first loop of parseLine reached with the one
\* line of the last call, or NoNode
HtmlBlockOffered ==
  IF Returned /\ LastCall.stream /\ Len(LastLines) = 1
  THEN LET child == LastChild(prev.nodes, LastMatched.lastMatchedNode)
       IN IF /\ child # NoNode
             /\ prev.nodes[child].type = "html-block"
             /\ ~prev.nodes[child].isClosed
          THEN child ELSE NoNode
  ELSE NoNode

\* the HTML blocks the one line of the last call created
HtmlBlocksCreated ==
  IF Returned /\ LastCall.stream /\ Len(LastLines) = 1
  THEN {id \in AddedNodes : parser.nodes[id].type = "html-block"}
  ELSE {}

\* C34: an open HTML block that a line reaches consumes it, and the call
\* makes no node: a block that a blank line can interrupt is closed by a
\* blank line and keeps its lines; otherwise the line, blank or not, is
\* the new last line of the block, which is closed if the trimmed line
\* matches its end pattern and stays open if not. The blocks a blank line
\* can interrupt are those without end pattern. A new HTML block holds its
\* start line and is closed exactly if it has an end pattern that the
\* trimmed start line matches.
C34_HtmlBlockConsumesEveryLine ==
  /\ \A id \in TreeNodes(parser.nodes) :
       parser.nodes[id].type = "html-block" =>
         (parser.nodes[id].canBeInterruptedByBlankLine <=> parser.nodes[id].endPattern = "undefined")
  /\ HtmlBlockOffered # NoNode =>
       LET block == HtmlBlockOffered
           line == LastMatched.line
       IN /\ Len(parser.nodes) = Len(prev.nodes)
          /\ Attached(parser.nodes, block)
          /\ IF prev.nodes[block].canBeInterruptedByBlankLine /\ isLineEmpty(line)
             THEN /\ parser.nodes[block].isClosed
                  /\ parser.nodes[block].lines = prev.nodes[block].lines
             ELSE /\ parser.nodes[block].lines = Append(prev.nodes[block].lines, line)
                  /\ parser.nodes[block].isClosed <=> HoldsEndText(prev.nodes[block].endPattern, line)
  /\ \A id \in HtmlBlocksCreated :
       /\ Len(parser.nodes[id].lines) = 1
       /\ parser.nodes[id].isClosed <=>
            HoldsEndText(parser.nodes[id].endPattern, parser.nodes[id].lines[1])

\* an open comment that holds a blank line receives the line that ends it
\* and is closed with that line as its third
C34_Witness ==
  /\ HtmlBlockOffered # NoNode
  /\ prev.nodes[HtmlBlockOffered].endPattern = "comment"
  /\ Len(prev.nodes[HtmlBlockOffered].lines) = 2
  /\ isLineEmpty(prev.nodes[HtmlBlockOffered].lines[2])
  /\ parser.nodes[HtmlBlockOffered].isClosed
  /\ parser.nodes[HtmlBlockOffered].lines[3] = <<"-", "-", ">">>

\* ------------------------------------------------------------------------
\* Properties of list items without content (checked under ItemSpec)
\* ------------------------------------------------------------------------

\* the last call was streamed and parsed one line
OneStreamedLine == Returned /\ LastCall.stream /\ Len(LastLines) = 1

\* the last child of the container the one line of the last call was
\* matched up to, if an open list, or NoNode
ListReached ==
  IF OneStreamedLine
  THEN LET child == LastChild(prev.nodes, LastMatched.lastMatchedNode)
       IN IF child # NoNode /\ prev.nodes[child].type = "list" /\ ~prev.nodes[child].isClosed
          THEN child ELSE NoNode
  ELSE NoNode

\* the last item of the list before the last call
LastItemBefore(list) == LastChild(prev.nodes, list)

\* the list items of the tree before the last call that were closed
\* without children
ClosedEmptyItemsBefore ==
  {id \in TreeNodes(prev.nodes) :
     /\ prev.nodes[id].type = "list-item"
     /\ prev.nodes[id].isClosed
     /\ prev.nodes[id].children = <<>>}

\* the list item of the line has the kind and the marker or delimiter of
\* the list
SameMarkerOrDelimiter(list, item) ==
  /\ prev.nodes[list].kind = item.kind
  /\ IF item.kind = "ordered" THEN prev.nodes[list].delimiter = item.delimiter
                                ELSE prev.nodes[list].marker = item.marker

\* C35: a blank line that reaches an open list whose last item is open
\* and has no children closes that item, makes no node and leaves the list
\* open; an item that is closed without children never gets a child,
\* whatever the indentation of the lines that follow; and a line that is a
\* list item with the marker or delimiter of an open list, reached while
\* the last item of that list is closed, adds its item to that list.
C35_BlankLineClosesEmptyItemOnly ==
  /\ (/\ ListReached # NoNode
      /\ isLineEmpty(LastMatched.line)
      /\ ~prev.nodes[LastItemBefore(ListReached)].isClosed
      /\ prev.nodes[LastItemBefore(ListReached)].children = <<>>) =>
       /\ Len(parser.nodes) = Len(prev.nodes)
       /\ parser.nodes[LastItemBefore(ListReached)].isClosed
       /\ ~parser.nodes[ListReached].isClosed
       /\ Attached(parser.nodes, ListReached)
       /\ parser.nodes[ListReached].children = prev.nodes[ListReached].children
  /\ Returned => \A id \in ClosedEmptyItemsBefore : parser.nodes[id].children = <<>>
  /\ (/\ ListReached # NoNode
      /\ LastItemBefore(ListReached) \in ClosedEmptyItemsBefore
      /\ parseListItem(LastMatched.line) # Null
      /\ SameMarkerOrDelimiter(ListReached, parseListItem(LastMatched.line))) =>
       /\ ~parser.nodes[ListReached].isClosed
       /\ Attached(parser.nodes, ListReached)
       /\ Len(parser.nodes[ListReached].children) = Len(prev.nodes[ListReached].children) + 1
       /\ LET item == LastChild(parser.nodes, ListReached)
          IN /\ item > Len(prev.nodes)
             /\ parser.nodes[item].type = "list-item"
       /\ \A id \in AddedNodes :
            parser.nodes[id].type = "list" => parser.nodes[id].parent # prev.nodes[ListReached].parent

\* a bullet item without content was closed by a blank line, a line
\* indented to its content column then made a paragraph outside of it, and
\* the item still has no children
C35_Witness ==
  /\ OneStreamedLine
  /\ Len(calls) >= 3
  /\ \E id \in ClosedEmptyItemsBefore :
       /\ LastLines[1] = <<" ", " ", "c">>
       /\ getLeadingNonspaceColumn(LastLines[1]) >= prev.nodes[prev.nodes[id].parent].numOfColumns
       /\ parser.nodes[id].children = <<>>
       /\ \E p \in AddedNodes : parser.nodes[p].type = "paragraph"

\* ------------------------------------------------------------------------
\* Properties of ATX headings (checked under HeadingSpec)
\* ------------------------------------------------------------------------

\* the headings among the nodes ever made, in the tree or taken out of it
Headings(nodes) == {id \in 1..Len(nodes) : nodes[id].type = "heading"}

\* the lines of the input so far that have their line ending
TerminatedLines == Terminators(Flatten(Inputs))

\* the text received after the last line ending
UnterminatedLine == TextAfterLastTerminator(Flatten(Inputs))

\* C36: every heading node is closed, and a call leaves the heading nodes
\* it finds as they are. After streamed calls the lines that have their
\* line ending are parsed and no node stems from the text after the last
\* line ending, so no heading of that text is in the tree or returned; and
\* a heading a streamed call adds to the root, which is the call that got
\* the line ending of its line, is returned by that call.
C36_HeadingClosedAndReturnedWithItsLine ==
  Returned =>
    /\ \A id \in Headings(parser.nodes) : parser.nodes[id].isClosed
    /\ \A id \in Headings(prev.nodes) : parser.nodes[id] = prev.nodes[id]
    /\ (AllStreamed /\ ~CRLFSplitByEmpty(Inputs)) =>
         /\ parser.nextLineIndex = TerminatedLines
         /\ \A id \in TreeNodes(parser.nodes) \ {RootId} :
              parser.nodes[id].endLineIndex < TerminatedLines
    /\ LastCall.stream =>
         \A id \in Headings(parser.nodes) :
           (id > Len(prev.nodes) /\ parser.nodes[id].parent = RootId) => id \in Range(LastCall.ids)

\* a streamed call got an ATX heading without its line ending and returned
\* nothing, and the next streamed call got the line ending and returned
\* the heading
C36_Witness ==
  /\ AllStreamedReturned
  /\ Len(calls) = 2
  /\ parseATXHeading(calls[1].input) # Null
  /\ calls[1].blocks = <<>>
  /\ calls[2].input = <<"\n">>
  /\ Len(calls[2].blocks) = 1
  /\ calls[2].blocks[1].type = "heading"
  /\ Headings(parser.nodes) = {LastCall.ids[1]}

\* ------------------------------------------------------------------------
\* Properties of line breaks (checked under BreakSpec)
\* ------------------------------------------------------------------------

\* the positions (from 1) of the elements of seq that satisfy Test
Positions(seq, Test(_)) == SelectSeq([i \in 1..Len(seq) |-> i], LAMBDA i : Test(seq[i]))

IsNewline(c) == c = "\n"

IsBreak(node) == node.type \in {"softbreak", "hardbreak"}

\* how many times c stands right before position i of input
RunBefore(input, i, c) ==
  CHOOSE n \in 0..(i - 1) :
    /\ \A j \in 1..n : input[i - j] = c
    /\ n = i - 1 \/ input[i - n - 1] # c

\* the character at position i of input follows a backslash that is not
\* itself escaped
AfterBackslash(input, i) == RunBefore(input, i, "\\") % 2 = 1

\* the break a newline at position i of input stands for
BreakFor(input, i) ==
  IF RunBefore(input, i, " ") >= 2 \/ AfterBackslash(input, i) THEN "hardbreak" ELSE "softbreak"

\* parseInline has returned a list without nested nodes
BreaksParsed ==
  /\ inline.phase = "returned"
  /\ \A i \in 1..Len(inline.result) : inline.result[i].type \in {"text", "softbreak", "hardbreak"}

\* every newline of the input has its break, in order, a hardbreak exactly
\* after two or more spaces or a backslash
EveryNewlineIsItsBreak ==
  LET newlines == Positions(inline.input, IsNewline)
      breaks == Positions(inline.result, IsBreak)
  IN /\ Len(breaks) = Len(newlines)
     /\ \A k \in 1..Len(breaks) :
          inline.result[breaks[k]].type = BreakFor(inline.input, newlines[k])

\* no text node right before the break of a newline that follows no
\* backslash ends with a space
NoSpaceBeforeBreak ==
  LET newlines == Positions(inline.input, IsNewline)
      breaks == Positions(inline.result, IsBreak)
  IN \A k \in 1..Len(breaks) :
       (/\ k <= Len(newlines)
        /\ ~AfterBackslash(inline.input, newlines[k])
        /\ breaks[k] > 1
        /\ inline.result[breaks[k] - 1].type = "text"
        /\ Len(inline.result[breaks[k] - 1].text) > 0) =>
         inline.result[breaks[k] - 1].text[Len(inline.result[breaks[k] - 1].text)] # " "

\* no text node right after a break starts with one of the characters
NoneAfterBreak(characters) ==
  \A i \in 1..(Len(inline.result) - 1) :
    (/\ IsBreak(inline.result[i])
     /\ inline.result[i + 1].type = "text"
     /\ Len(inline.result[i + 1].text) > 0) =>
      inline.result[i + 1].text[1] \notin characters

\* C37 as stated: every newline yields a softbreak, or a hardbreak when two
\* or more spaces or a backslash precede it; the text node before the break
\* has lost the spaces that preceded the newline; and the text node after a
\* break never starts with a space or a tab.
C37_NewlineIsBreakBetweenTrimmedTexts ==
  BreaksParsed =>
    /\ EveryNewlineIsItsBreak
    /\ NoSpaceBeforeBreak
    /\ NoneAfterBreak({" ", "\t"})

\* what holds of line breaks: the breaks and the trimmed text before them
\* as stated, and after a break no text node that starts with a space
BreaksAsTheLoopMakesThem ==
  BreaksParsed =>
    /\ EveryNewlineIsItsBreak
    /\ NoSpaceBeforeBreak
    /\ NoneAfterBreak({" "})

\* ------------------------------------------------------------------------
\* Properties of code spans (checked under CodeSpec)
\* ------------------------------------------------------------------------

\* the maximal runs of backticks of input: index of the first one, length
BacktickRuns(input) ==
  {[start |-> i, length |-> CountRun(input, i, Backtick)] :
     i \in {j \in 0..(Len(input) - 1) :
              CharAt(input, j) = Backtick /\ CharAt(input, j - 1) # Backtick}}

\* the run of runs that starts first
FirstRun(runs) == CHOOSE r \in runs : \A q \in runs : r.start <= q.start

\* the nodes of input from index from on: the text up to the next run of
\* backticks; then, if a later run has the length of that run, a code span
\* of what lies between the run and the first such run, and the nodes of
\* what follows it; if none has, the backticks as text, and the nodes of
\* what follows them
RECURSIVE SpansFrom(_, _)
SpansFrom(input, from) ==
  LET runs == {r \in BacktickRuns(input) : r.start >= from}
  IN IF from >= Len(input) THEN <<>>
     ELSE IF runs = {} THEN <<TextNode(SliceFrom(input, from))>>
     ELSE
       LET opener == FirstRun(runs)
           before == IF opener.start > from
                     THEN <<TextNode(Slice(input, from, opener.start))>> ELSE <<>>
           closers == {q \in runs : q.start > opener.start /\ q.length = opener.length}
       IN IF closers = {}
          THEN before \o <<TextNode(Slice(input, opener.start, opener.start + opener.length))>>
                 \o SpansFrom(input, opener.start + opener.length)
          ELSE before
                 \o <<[InlineNode("code-span") EXCEPT
                         !.text = Slice(input, opener.start + opener.length,
                                        FirstRun(closers).start)]>>
                 \o SpansFrom(input, FirstRun(closers).start + FirstRun(closers).length)

\* the text of a code span made of captured: captured itself, or captured
\* without the space at each end
SpanTexts(captured) ==
  {captured} \cup
    (IF Len(captured) >= 2 /\ captured[1] = " " /\ captured[Len(captured)] = " "
     THEN {SubSeq(captured, 2, Len(captured) - 1)} ELSE {})

\* parseInline has returned for a text of backticks, letters and spaces
CodeParsed == inline.phase = "returned" /\ Range(inline.input) \subseteq CodeAlphabet

\* C38: parseInline returns, with adjacent text merged, the nodes of the
\* input read run by run: a run of k backticks and the first later run of
\* exactly k backticks make a code span of what lies between them, runs of
\* other lengths included; a run with no such later run is text of k
\* backticks, and what follows it is read from right after it; every other
\* character is text, in place.
C38_CodeSpanBetweenRunsOfEqualLength ==
  CodeParsed =>
    LET expected == mergeAdjacentTextNodes(SpansFrom(inline.input, 0))
    IN /\ Len(inline.result) = Len(expected)
       /\ \A i \in 1..Len(expected) :
            /\ inline.result[i].type = expected[i].type
            /\ IF expected[i].type = "code-span"
               THEN inline.result[i].text \in SpanTexts(expected[i].text)
               ELSE inline.result[i].text = expected[i].text

\* a backtick, a letter, two backticks, a letter and a backtick: one code
\* span between the single backticks, with the two backticks in its text
C38_Witness ==
  /\ CodeParsed
  /\ inline.input = <<Backtick, "a", Backtick, Backtick, "a", Backtick>>
  /\ Len(inline.result) = 1
  /\ inline.result[1].type = "code-span"
  /\ inline.result[1].text = <<"a", Backtick, Backtick, "a">>

\* ------------------------------------------------------------------------
\* Properties of the characters a LineSplitter keeps (checked under
\* SplitLettersSpec)
\* ------------------------------------------------------------------------

\* s without its CR and LF characters
WithoutTerminators(s) == SelectSeq(s, LAMBDA c : ~IsTerminator(c))

HasTerminator(s) == \E i \in 1..Len(s) : IsTerminator(s[i])

\* C39: no line any call emitted and no buffered partial line holds a CR
\* or an LF, and the characters of the emitted lines, in the order they
\* were emitted, followed by the buffered partial line, are the characters
\* of the chunks received so far without their CR and LF characters.
C39_SplitterKeepsEveryCharacter ==
  /\ \A k \in 1..Len(EmittedLines) : ~HasTerminator(EmittedLines[k])
  /\ ~HasTerminator(splitter.partialLine)
  /\ Flatten(EmittedLines) \o splitter.partialLine = WithoutTerminators(Flatten(SplitInputs))

\* three streamed calls: two letters buffered, a line completed by a CR
\* that ends the second chunk, and an LF followed by a letter that is
\* buffered while the line of both letters and the first has been emitted
C39_Witness ==
  /\ Len(splits) = 3
  /\ splits[1].chunk = <<"a", "b">> /\ splits[1].stream /\ splits[1].lines = <<>>
  /\ splits[2].chunk = <<"a", "\r">> /\ splits[2].stream
  /\ splits[2].lines = << <<"a", "b", "a">> >>
  /\ splits[3].chunk = <<"\n", "b">> /\ splits[3].stream /\ splits[3].lines = <<>>
  /\ splitter.partialLine = <<"b">>

====
